---- MODULE Spec2Model ----
(***************************************************************************)
(* A model of the aoc-parse backtracking parser-combinator engine.         *)
(*                                                                         *)
(* Source text is a sequence of one-character strings; offsets are         *)
(* 0-based as in the Rust code (every modelled character is one byte).     *)
(* A parser is an entry of the table Parsers, named by a string id, which  *)
(* the variable parsers holds from construction on; a ParseIter is a       *)
(* record that holds the state the Rust iterator structs hold.             *)
(* The Rust functions take `&mut ParseContext` and return                  *)
(* `Result<_, Reported>`; here each returns a record [ok, it, ctx]         *)
(* carrying the iterator and the context after the call.                   *)
(***************************************************************************)
EXTENDS Integers, Sequences, FiniteSets, TLC

\* ------------------------------------------------------------------ bounds
\* The longest text given to a parser without regions, and to one with.
MaxLen == 5

MaxRegionLen == 6

MaxCount == 2

MaxRules == 2

MaxAddress == 2

MaxRuleLen == 5

\* The deepest chain of calls that is followed.
MaxDepth == 12

\* The longest text given to a left-recursive rule.
MaxLeftLen == 3
\* How far beyond either end of an integer type's range the numbers go whose
\* text is parsed.
MaxOver == 20
\* The number of characters of the texts given to char_of.
MaxChars == 3
\* The number of parse calls that follow the first.
MaxAgain == 2
\* The longest stack of child iterators that a repeat iterator is followed
\* to: the loop of advance() has no bound, and one that gets this far is taken
\* never to end.
MaxMatches == 20

Alphabet == {"1", "a", "\n"}

\* The second text of test_rule_set, "[3,[7,88]]".
Example == <<"[", "3", ",", "[", "7", ",", "8", "8", "]", "]">>

RuleAlphabet == {"3", "[", "]", ","}

\* The largest number of lists open at once while `s` is read, `open` of
\* them being open before it.
RECURSIVE Deepest(_, _)
Deepest(s, open) ==
    IF s = <<>> THEN open
    ELSE LET now == IF Head(s) = "[" THEN open + 1
                    ELSE IF Head(s) = "]" /\ open > 0 THEN open - 1
                    ELSE open
             rest == Deepest(Tail(s), now)
         IN IF rest > open THEN rest ELSE open

Nesting(s) == Deepest(s, 0)

\* The texts for the rule set of test_rule_set: the example and every short
\* text that nests lists no deeper than the example does.
RuleTexts ==
    {s \in UNION {[1..n -> RuleAlphabet] : n \in 0..MaxRuleLen} :
        Nesting(s) <= Nesting(Example)} \cup {Example}

\* ------------------------------------------------------------ string helpers
Slice(s, from, to) == SubSeq(s, from + 1, to)

StartsWith(s, prefix) ==
    /\ Len(prefix) <= Len(s)
    /\ SubSeq(s, 1, Len(prefix)) = prefix

\* Offsets (relative to `from`) at which `pat` occurs in source[from..].
FindOffsets(source, from, pat) ==
    {o \in 0..(Len(source) - from) : StartsWith(Slice(source, from + o, Len(source)), pat)}

SetMin(S) == CHOOSE x \in S : \A y \in S : x <= y

SetMax(S) == CHOOSE x \in S : \A y \in S : x >= y

IsAsciiDigit(c) == c \in {"0", "1", "2", "3", "4", "5", "6", "7", "8", "9"}

IsAlphabetic(c) == c \in {"a", "b", "c", "x", "y", "z", "A", "B"}

ToDigit(c) ==
    CASE c = "0" -> 0 [] c = "1" -> 1 [] c = "2" -> 2 [] c = "3" -> 3
      [] c = "4" -> 4 [] c = "5" -> 5 [] c = "6" -> 6 [] c = "7" -> 7
      [] c = "8" -> 8 [] c = "9" -> 9
      [] c \in {"a", "A"} -> 10 [] c \in {"b", "B"} -> 11 [] c \in {"c", "C"} -> 12
      [] c \in {"d", "D"} -> 13 [] c \in {"e", "E"} -> 14 [] c \in {"f", "F"} -> 15

RECURSIVE DecimalValue(_)
DecimalValue(run) ==
    IF run = <<>> THEN 0
    ELSE 10 * DecimalValue(SubSeq(run, 1, Len(run) - 1)) + ToDigit(run[Len(run)])

\* ------------------------------------------------------------------ errors
\* `what` is the text the message names, as a sequence: the characters of an
\* expected literal, or the one noun or type name.
ParseError(kind, location, end, what) ==
    [kind |-> kind, location |-> location, end |-> end, what |-> what]

new_expected(source, start, expected) == ParseError("Expected", start, start, expected)

new_from_str_failed(source, start, end, type_name) ==
    ParseError("FromStrFailed", start, end, <<type_name>>)

new_extra(source, location) == ParseError("ExtraUnparsed", location, location, <<>>)

new_line_extra(source, location) == ParseError("LineExtra", location, location, <<>>)

new_section_extra(source, location) == ParseError("SectionExtra", location, location, <<>>)

new_bad_line_start(source, location) == ParseError("BadLineStart", location, location, <<>>)

new_bad_section_start(source, location) ==
    ParseError("BadSectionStart", location, location, <<>>)

adjust_location_start_only(err, full_source, offset) ==
    [err EXCEPT !.location = @ + offset]

adjust_location(err, full_source, offset) ==
    [err EXCEPT !.location = @ + offset, !.end = @ + offset]

\* ----------------------------------------------------------------- context
\* Option<T> is a sequence of length 0 (None) or 1 (Some).
None == <<>>

Some(x) == <<x>>

\* The UTF-8 encoding of a character, as its bytes: one byte, the character
\* itself, for an ASCII character; four bytes for the three characters of
\* test_char_of beyond ASCII, which share their first two bytes.
Utf8(c) ==
    CASE c = "U+1F602" -> <<"F0", "9F", "98", "82">>
      [] c = "U+1F603" -> <<"F0", "9F", "98", "83">>
      [] c = "U+1F30D" -> <<"F0", "9F", "8C", "8D">>
      [] OTHER -> <<c>>

\* source[start..].chars().next(): nothing at the end of the text; otherwise
\* the character whose encoding is the next bytes, as many as the first byte
\* announces.
chars_next(source, start) ==
    IF start >= Len(source) THEN None
    ELSE LET width == IF source[start + 1] = "F0" THEN 4 ELSE 1
             bytes == SubSeq(source, start + 1, start + width)
         IN Some(CHOOSE c \in {"U+1F602", "U+1F603", "U+1F30D", source[start + 1]} :
                     Utf8(c) = bytes)

OptTops == {"opt_i32", "seq_x_eq_opt_i32", "opt_star_x1"}

\* The texts given to the optional patterns: those of the crate
\* documentation, "x=123" and "x=", the empty text and others near them.
OptTexts ==
    {<<>>, <<"x", "=">>, <<"x", "=", "1", "2", "3">>, <<"x", "=", "-", "1">>, <<"x">>,
     <<"1">>, <<"1", "1">>, <<"1", "x">>, <<"x", "=", "x">>, <<"=", "1">>, <<"x", "=", "1", "=">>}

CharOfTops ==
    {"char_of_lt_eq_gt", "char_of_DCBA", "char_of_DCDC", "char_of_nothing", "char_of_faces"}

\* The texts given to char_of: the encodings of the strings of up to MaxChars
\* characters, among them characters of each list of options and of none,
\* and the newline.
RECURSIVE Encode(_)
Encode(chars) == IF chars = <<>> THEN <<>> ELSE Utf8(chars[1]) \o Encode(Tail(chars))

CharOfTexts ==
    {Encode(chars) :
        chars \in UNION {[1..n -> {">", "D", "C", "L", "\n", "U+1F602", "U+1F30D"}] :
                            n \in 0..MaxChars}}

Texts(max) == UNION {[1..n -> Alphabet] : n \in 0..max}

\* Rust's ordering on Option<usize>: None < Some(_), Some(a) < Some(b) iff a < b.
OptionGt(x, y) == x # None /\ (y = None \/ x[1] > y[1])

OptionLocation(opt) == IF opt = None THEN None ELSE Some(opt[1].location)

\* `log`, `closed`, `calls`, `fetched`, `depth`, `asserted` and `hung` are
\* history fields the Rust struct does not have: `log` is every error passed
\* to report() on this context, in order; `closed` is one record per nested
\* context that with_slice created under this context; `calls` is the closure
\* mappers invoked while matching; `fetched` is the rule lookups made; `depth`
\* is the number of contexts this one is nested in; `asserted` is the pairs of
\* stack lengths that the assert_eq! of the repeat iterators were given;
\* `hung` is whether a loop of advance() was cut at MaxMatches.
new(source) ==
    [source |-> source, foremost_error |-> None, rule_sets |-> <<>>, log |-> <<>>,
     closed |-> <<>>, calls |-> <<>>, fetched |-> <<>>, depth |-> 0,
     asserted |-> {}, hung |-> FALSE]

report_last(self, err) ==
    [self EXCEPT !.foremost_error = Some(err), !.log = Append(@, err)]

report_always(self, err) ==
    [self EXCEPT !.foremost_error =
                     IF OptionLocation(Some(err)) = OptionLocation(self.foremost_error)
                        \/ OptionGt(OptionLocation(Some(err)),
                                    OptionLocation(self.foremost_error))
                     THEN Some(err) ELSE @,
                 !.log = Append(@, err)]

report(self, err) ==
    [self EXCEPT !.foremost_error =
                     IF OptionGt(OptionLocation(Some(err)),
                                 OptionLocation(self.foremost_error))
                     THEN Some(err) ELSE @,
                 !.log = Append(@, err)]

error_expected(self, start, expected) ==
    report(self, new_expected(self.source, start, expected))

error_from_str_failed(self, start, end, type_name) ==
    report(self, new_from_str_failed(self.source, start, end, type_name))

error_extra_at_start(self, location) == report(self, new_extra(self.source, 0))

error_extra(self, location) == report(self, new_extra(self.source, location))

into_reported_error(self) == self.foremost_error[1]

\* rule_sets is a map from the id of a rule set to its list of parsers.
register_rule_set(self, rule_set_id, rule_parsers) ==
    [self EXCEPT !.rule_sets =
        [id \in DOMAIN self.rule_sets \cup {rule_set_id} |->
            IF id = rule_set_id THEN rule_parsers ELSE self.rule_sets[id]]]

fetch_parser_for_rule_first(self, rule_set_id, index) == self.rule_sets[rule_set_id][1]

fetch_parser_for_rule(self, rule_set_id, index) == self.rule_sets[rule_set_id][index + 1]

\* The context with the record of a lookup that returned `found`.
Fetched(self, rule_set_id, index, found) ==
    [self EXCEPT !.fetched =
        Append(@, [rule_set_id |-> rule_set_id, index |-> index, found |-> found,
                   registered |-> rule_set_id \in DOMAIN self.rule_sets,
                   depth |-> self.depth])]

\* The line and the column that the message of an error names for the byte
\* offset loc: both count from 1; the scan from `pos` takes one character at a
\* time, a newline begins a line, any other character is one column.
RECURSIVE line_col_bytes(_, _, _, _, _)
line_col_bytes(source, pos, loc, line, column) ==
    IF pos >= loc THEN [line |-> line, column |-> column]
    ELSE IF source[pos + 1] = "\n" THEN line_col_bytes(source, pos + 1, loc, line + 1, 1)
    ELSE line_col_bytes(source, pos + 1, loc, line, column + 1)

RECURSIVE line_col(_, _, _, _, _)
line_col(source, pos, loc, line, column) ==
    LET c == chars_next(source, pos)[1] IN
    IF pos >= loc THEN [line |-> line, column |-> column]
    ELSE IF c = "\n" THEN line_col(source, pos + Len(Utf8(c)), loc, line + 1, 1)
    ELSE line_col(source, pos + Len(Utf8(c)), loc, line, column + 1)

\* ------------------------------------------------------------- the parsers
\* One record shape for every parser struct.  p1/p2 are the ids of the
\* sub-parsers: head/tail of a sequence, pattern/sep of a repeat, left/right
\* of an alternation, the wrapped parser of line, section, map and string.
BaseParser ==
    [kind |-> "empty", p1 |-> "none", p2 |-> "none", s |-> <<>>, noun |-> "",
     min |-> 0, max |-> None, sep_is_terminator |-> FALSE, mapper |-> "", op |-> "",
     rule_set_id |-> 0, index |-> 0, rule_parsers |-> <<>>, radix |-> 0]

empty == BaseParser

exact(s) == [BaseParser EXCEPT !.kind = "exact", !.s = s]

CharParser(noun) == [BaseParser EXCEPT !.kind = "char", !.noun = noun]

char_of(options) == [BaseParser EXCEPT !.kind = "char_of", !.s = options]

RegexParser(type_name, radix) ==
    [BaseParser EXCEPT !.kind = "regex", !.noun = type_name, !.radix = radix]

sequence(head, tail) ==
    [BaseParser EXCEPT !.kind = "sequence", !.p1 = head, !.p2 = tail, !.op = "Concat"]

pair(head, tail) ==
    [BaseParser EXCEPT !.kind = "sequence", !.p1 = head, !.p2 = tail, !.op = "Pair"]

either(left, right) == [BaseParser EXCEPT !.kind = "either", !.p1 = left, !.p2 = right]

repeat(pattern, sep, min, max, sep_is_terminator) ==
    [BaseParser EXCEPT !.kind = "repeat", !.p1 = pattern, !.p2 = sep, !.min = min,
                       !.max = max, !.sep_is_terminator = sep_is_terminator]

star(pattern) == repeat(pattern, "empty", 0, None, FALSE)

plus(pattern) == repeat(pattern, "empty", 1, None, FALSE)

repeat_sep(pattern, sep) == repeat(pattern, sep, 0, None, FALSE)

\* The outcome of a constructor call: the parser it returns, or the panic
\* that ends it.
Constructed(p) == [panicked |-> FALSE, parser |-> p]

Panicked == [panicked |-> TRUE, parser |-> BaseParser]

repeat_min_max_unchecked(pattern, min, max) ==
    Constructed(repeat(pattern, "empty", min, Some(max), FALSE))

repeat_min_max(pattern, min, max) ==
    IF min > max
    THEN Panicked
    ELSE Constructed(repeat(pattern, "empty", min, Some(max), FALSE))

line(parser) == [BaseParser EXCEPT !.kind = "region", !.noun = "Line", !.p1 = parser]

section(parser) == [BaseParser EXCEPT !.kind = "region", !.noun = "Section", !.p1 = parser]

map(parser, mapper) ==
    [BaseParser EXCEPT !.kind = "map", !.p1 = parser, !.mapper = mapper]

string(parser) == [BaseParser EXCEPT !.kind = "string", !.p1 = parser]

single_value(parser) == map(parser, "SingleValue")

\* alt(left, right): either(left, right), with the value taken out of the
\* Either.
alt(e) == map(e, "into_inner")

opt_never(e) == map("empty", "Skip")

\* opt(pattern) for e = either(pattern, empty): the Either made an Option,
\* Some of the left value or None for the empty match.
opt(e) == map(e, "opt")

\* DynParser::new(parser) for a parser that is single_value(parser) already.
DynParser(inner) == [BaseParser EXCEPT !.kind = "dyn", !.p1 = inner]

RuleParser(rule_set_id, index) ==
    [BaseParser EXCEPT !.kind = "rule", !.rule_set_id = rule_set_id, !.index = index]

\* p1 is the entry_parser.
RuleSetParser(id, rule_parsers, entry_parser) ==
    [BaseParser EXCEPT !.kind = "rule_set", !.rule_set_id = id,
                       !.rule_parsers = rule_parsers, !.p1 = entry_parser]

\* The parsers under analysis.  A composite names its parts by id, so every
\* part is itself an entry.
Parsers ==
    [none |-> BaseParser,
     empty |-> empty,
     x1 |-> exact(<<"1">>),
     xa |-> exact(<<"a">>),
     x1a |-> exact(<<"1", "a">>),
     xnl |-> exact(<<"\n">>),
     any_char |-> CharParser("any character"),
     digit_char |-> CharParser("decimal digit"),
     digit |-> map("digit_char", "to_digit"),
     u64 |-> RegexParser("u64", 10),
     u8 |-> RegexParser("u8", 10),
     i8 |-> RegexParser("i8", 10),
     u8_hex |-> RegexParser("u8", 16),
     i8_hex |-> RegexParser("i8", 16),
     u8_bin |-> RegexParser("u8", 2),
     i8_bin |-> RegexParser("i8", 2),
     i32_hex |-> RegexParser("i32", 16),
     bool |-> RegexParser("bool", 10),
     i32 |-> RegexParser("i32", 10),
     either_i32_empty |-> either("i32", "empty"),
     opt_i32 |-> opt("either_i32_empty"),
     x_eq |-> exact(<<"x", "=">>),
     seq_x_eq_opt_i32 |-> sequence("x_eq", "opt_i32"),
     either_star_x1_empty |-> either("star_x1", "empty"),
     opt_star_x1 |-> opt("either_star_x1_empty"),
     char_of_lt_eq_gt |-> char_of(<<"<", "=", ">">>),
     char_of_DCBA |-> char_of(<<"D", "C", "B", "A">>),
     char_of_DCDC |-> char_of(<<"D", "C", "D", "C">>),
     char_of_nothing |-> char_of(<<>>),
     seq_any_DCBA |-> sequence("any_char", "char_of_DCBA"),
     seq_any_any_DCBA |-> sequence("any_char", "seq_any_DCBA"),
     char_of_faces |-> char_of(<<"U+1F602", "U+1F603", "U+1F30D">>),
     seq_i32_hex_i32_hex |-> sequence("i32_hex", "i32_hex"),
     seq_xa_u8 |-> sequence("xa", "u8"),
     seq_u8_xa |-> sequence("u8", "xa"),
     \* lines(u64), sections(lines(u64)), "\n" section(lines(u64))
     line_u64 |-> line("u64"),
     lines_u64 |-> star("line_u64"),
     line_u8 |-> line("u8"),
     lines_u8 |-> star("line_u8"),
     section_lines_u64 |-> section("lines_u64"),
     sections_lines_u64 |-> star("section_lines_u64"),
     nl_section_lines_u64 |-> sequence("xnl", "section_lines_u64"),
     \* lines("1"*), lines(digit)
     star_x1 |-> star("x1"),
     line_star_x1 |-> line("star_x1"),
     lines_star_x1 |-> star("line_star_x1"),
     line_digit |-> line("digit"),
     lines_digit |-> star("line_digit"),
     \* line("1"* any_char*), (line("1"*) line("1"* any_char*))
     line_seq_stars |-> line("seq_star_x1_star_any"),
     seq_line_line |-> sequence("line_star_x1", "line_seq_stars"),
     \* (line("1"*) section(lines(u64))), (section(lines(u64)) section(lines(u64)))
     seq_line_section |-> sequence("line_star_x1", "section_lines_u64"),
     seq_section_section |-> sequence("section_lines_u64", "section_lines_u64"),
     \* {("1" => panic!()), "1a"} and ({"1", "1a"} "a")
     x1_panic |-> map("x1", "panic"),
     either_panic |-> either("x1_panic", "x1a"),
     either_x1_x1a |-> either("x1", "x1a"),
     seq_either_xa |-> sequence("either_x1_x1a", "xa"),
     seq_x1_xa |-> sequence("x1", "xa"),
     seq_x1a_xa |-> sequence("x1a", "xa"),
     either_xa_star_x1 |-> either("xa", "star_x1"),
     \* (any_char* "a"), ("1"* any_char*), (x:any_char => f(x))*
     star_any |-> star("any_char"),
     seq_star_any_xa |-> sequence("star_any", "xa"),
     seq_star_x1_star_any |-> sequence("star_x1", "star_any"),
     any_f |-> map("any_char", "f"),
     star_any_f |-> star("any_f"),
     \* string(digit+), repeat_sep("1", ("a" => g())) 
     plus_digit |-> plus("digit"),
     string_plus_digit |-> string("plus_digit"),
     xa_g |-> map("xa", "g"),
     \* string(any_char+), string(alpha+), ("1" string(any_char+) "a"),
     \* lines(string(any_char+))
     plus_any |-> plus("any_char"),
     string_plus_any |-> string("plus_any"),
     alpha |-> CharParser("letter"),
     plus_alpha |-> plus("alpha"),
     string_plus_alpha |-> string("plus_alpha"),
     seq_string_xa |-> sequence("string_plus_any", "xa"),
     seq_x1_string_xa |-> sequence("x1", "seq_string_xa"),
     line_string |-> line("string_plus_any"),
     lines_string |-> star("line_string"),
     repeat_sep_x1_xa_g |-> repeat_sep("x1", "xa_g"),
     \* repeat_n(any_char, k), repeat_min_max(digit, 1, 2), repeat_min(digit, 2),
     \* repeat_max(digit, 1)
     repeat_any_0 |-> repeat("any_char", "empty", 0, Some(0), FALSE),
     repeat_any_1 |-> repeat("any_char", "empty", 1, Some(1), FALSE),
     repeat_any_2 |-> repeat("any_char", "empty", 2, Some(2), FALSE),
     repeat_any_3 |-> repeat("any_char", "empty", 3, Some(3), FALSE),
     repeat_digit_1_2 |-> repeat("digit", "empty", 1, Some(2), FALSE),
     repeat_digit_min_2 |-> repeat("digit", "empty", 2, None, FALSE),
     repeat_digit_max_1 |-> repeat("digit", "empty", 0, Some(1), FALSE),
     \* separated and terminated repeats of "1" with "a"
     repeat_sep_x1_xa |-> repeat_sep("x1", "xa"),
     repeat_sep_any_xa |-> repeat_sep("any_char", "xa"),
     repeat_x1_xa_1_2 |-> repeat("x1", "xa", 1, Some(2), FALSE),
     repeat_x1_xa_term |-> repeat("x1", "xa", 0, None, TRUE),
     repeat_x1_xa_term_1_2 |-> repeat("x1", "xa", 1, Some(2), TRUE),
     \* empty*, {"1", "1a"}*, repeat_sep("1"*, "a"), line({"1", "1a"})
     star_empty |-> star("empty"),
     star_either_x1_x1a |-> star("either_x1_x1a"),
     repeat_sep_star_x1_xa |-> repeat_sep("star_x1", "xa"),
     line_either_x1_x1a |-> line("either_x1_x1a"),
     \* the rule set of test_rule_set:
     \*   value = u64 => Int | "[]" => List([]) | "[" values "]" => List(values)
     \*   values = repeat_sep(value, ",")
     x_open |-> exact(<<"[">>),
     x_close |-> exact(<<"]">>),
     x_comma |-> exact(<<",">>),
     x_brackets |-> exact(<<"[", "]">>),
     rule_value |-> RuleParser(1, 0),
     rule_values |-> RuleParser(1, 1),
     value_int |-> map("u64", "Int"),
     value_empty |-> map("x_brackets", "EmptyList"),
     pair_values_close |-> pair("rule_values", "x_close"),
     pair_open_values |-> pair("x_open", "pair_values_close"),
     value_list |-> map("pair_open_values", "List"),
     either_empty_list |-> either("value_empty", "value_list"),
     alt_empty_list |-> alt("either_empty_list"),
     either_value |-> either("value_int", "alt_empty_list"),
     alt_value |-> alt("either_value"),
     values_body |-> repeat_sep("rule_value", "x_comma"),
     sv_value |-> single_value("alt_value"),
     dyn_value |-> DynParser("sv_value"),
     sv_values |-> single_value("values_body"),
     dyn_values |-> DynParser("sv_values"),
     sv_entry |-> single_value("rule_value"),
     dyn_entry |-> DynParser("sv_entry"),
     value_parser |-> RuleSetParser(1, <<"dyn_value", "dyn_values">>, "dyn_entry"),
     \* a rule set with item = u64 and the entry sections(lines(item)); the
     \* rule set with the entry item, in lines; and a rule set with the entry
     \* section(lines(item "a" s)) where s is that second rule set
     sv_u64 |-> single_value("u64"),
     dyn_u64 |-> DynParser("sv_u64"),
     rule_item |-> RuleParser(2, 0),
     line_item |-> line("rule_item"),
     lines_item |-> star("line_item"),
     section_items |-> section("lines_item"),
     sections_items |-> star("section_items"),
     sv_sections_items |-> single_value("sections_items"),
     dyn_sections_items |-> DynParser("sv_sections_items"),
     sections_parser |-> RuleSetParser(2, <<"dyn_u64">>, "dyn_sections_items"),
     rule_inner |-> RuleParser(3, 0),
     sv_inner |-> single_value("rule_inner"),
     dyn_inner |-> DynParser("sv_inner"),
     inner_parser |-> RuleSetParser(3, <<"dyn_u64">>, "dyn_inner"),
     line_inner_parser |-> line("inner_parser"),
     lines_inner_parser |-> star("line_inner_parser"),
     seq_xa_inner |-> sequence("xa", "inner_parser"),
     seq_item_xa_inner |-> sequence("rule_item", "seq_xa_inner"),
     line_item_inner |-> line("seq_item_xa_inner"),
     lines_item_inner |-> star("line_item_inner"),
     section_item_inner |-> section("lines_item_inner"),
     sv_section_item_inner |-> single_value("section_item_inner"),
     dyn_section_item_inner |-> DynParser("sv_section_item_inner"),
     outer_parser |-> RuleSetParser(2, <<"dyn_u64">>, "dyn_section_item_inner"),
     \* the left-recursive rule a = a "x" | "y", and a = b "x" | "y" with b = a
     x_x |-> exact(<<"x">>),
     x_y |-> exact(<<"y">>),
     rule_a |-> RuleParser(4, 0),
     seq_a_x |-> sequence("rule_a", "x_x"),
     either_a |-> either("seq_a_x", "x_y"),
     alt_a |-> alt("either_a"),
     sv_a |-> single_value("alt_a"),
     dyn_a |-> DynParser("sv_a"),
     sv_entry_a |-> single_value("rule_a"),
     dyn_entry_a |-> DynParser("sv_entry_a"),
     left_parser |-> RuleSetParser(4, <<"dyn_a">>, "dyn_entry_a"),
     rule_c |-> RuleParser(5, 0),
     rule_b |-> RuleParser(5, 1),
     seq_b_x |-> sequence("rule_b", "x_x"),
     either_c |-> either("seq_b_x", "x_y"),
     alt_c |-> alt("either_c"),
     sv_c |-> single_value("alt_c"),
     dyn_c |-> DynParser("sv_c"),
     sv_b |-> single_value("rule_c"),
     dyn_b |-> DynParser("sv_b"),
     mutual_parser |-> RuleSetParser(5, <<"dyn_c", "dyn_b">>, "dyn_b")]

\* The parsers that parse() is called on.
RegionTops ==
    {"lines_u64", "sections_lines_u64", "nl_section_lines_u64", "lines_star_x1",
     "lines_digit"}

LineTops == {"line_u64", "line_star_x1", "line_seq_stars", "seq_line_line"}

SectionTops == {"section_lines_u64", "seq_line_section", "seq_section_section"}

RuleTops == {"value_parser"}

\* The rule sets with lines and sections.
RuleRegionTops == {"sections_parser", "lines_inner_parser", "outer_parser"}

StringTops == {"string_plus_any", "string_plus_alpha", "seq_x1_string_xa", "lines_string"}

\* The range of an integer type.  u64::MAX is beyond the integers of the
\* model; no run of the model's texts under u64 comes near it.
IntRange(type_name) ==
    CASE type_name = "u8" -> [min |-> 0, max |-> Some(255)]
      [] type_name = "i8" -> [min |-> -128, max |-> Some(127)]
      [] type_name = "i32" -> [min |-> -2147483647 - 1, max |-> Some(2147483647)]
      [] OTHER -> [min |-> 0, max |-> None]

\* The text of n in the radix: the digits of |n|, most significant first,
\* after a "-" when n is negative.
RECURSIVE Format(_, _)
Format(n, radix) ==
    LET digits == <<"0", "1", "2", "3", "4", "5", "6", "7", "8", "9",
                    "a", "b", "c", "d", "e", "f">>
    IN IF n < 0 THEN <<"-">> \o Format(-n, radix)
       ELSE IF n < radix THEN <<digits[n + 1]>>
       ELSE Append(Format(n \div radix, radix), digits[(n % radix) + 1])

NumberTops ==
    {"u8", "i8", "u8_hex", "i8_hex", "u8_bin", "i8_bin", "i32_hex",
     "seq_i32_hex_i32_hex", "bool"}

\* The texts given to an integer parser: the text of every number of the
\* type's range and of MaxOver numbers beyond either end, the same with a "+"
\* or a "0" before the digits; for i32_hex and the sequence of two, the
\* texts of test_parse_hex; for bool, those of test_bool.
NumberTexts(p) ==
    LET radix == Parsers[p].radix
        range == IntRange(Parsers[p].noun)
        numbers == (range.min - MaxOver)..(range.max[1] + MaxOver)
    IN IF p = "bool"
       THEN {<<"t", "r", "u", "e">>, <<"f", "a", "l", "s", "e">>, <<"t">>, <<>>,
             <<" ", "t", "r", "u", "e">>, <<"f", "a", "l", "s", "e", " ">>}
       ELSE IF p = "seq_i32_hex_i32_hex"
       THEN {<<"1", "2">>, <<"-", "1", "+", "1">>,
             <<"0", "1", "2", "3", "0", "1", "2", "3", "A", "B", "C", "D", "A", "B", "C", "D">>}
       ELSE IF p = "i32_hex"
       THEN {<<"+">>, <<"-">>, <<"+", " ", "4">>,
             <<"7", "B", "C", "D", "E", "F", "0", "1">>,
             <<"7", "f", "f", "f", "f", "f", "f", "f">>,
             <<"8", "0", "0", "0", "0", "0", "0", "0">>,
             <<"-", "8", "0", "0", "0", "0", "0", "0", "0">>,
             <<"-", "8", "0", "0", "0", "0", "0", "0", "1">>}
       ELSE {Format(n, radix) : n \in numbers}
            \cup {<<"+">> \o Format(n, radix) : n \in numbers \cap Nat}
            \cup {<<"0">> \o Format(n, radix) : n \in numbers \cap Nat}

Tops ==
    RegionTops \cup LineTops \cup SectionTops \cup StringTops \cup RuleTops \cup
    RuleRegionTops \cup NumberTops \cup CharOfTops \cup OptTops \cup
    {"either_panic", "either_x1_x1a", "seq_either_xa", "either_xa_star_x1",
     "seq_star_any_xa", "seq_star_x1_star_any", "star_x1", "star_any_f",
     "string_plus_digit", "repeat_sep_x1_xa_g",
     "repeat_any_0", "repeat_any_1", "repeat_any_2", "repeat_any_3",
     "repeat_digit_1_2", "repeat_digit_min_2", "repeat_digit_max_1",
     "repeat_sep_x1_xa", "repeat_sep_any_xa", "repeat_x1_xa_1_2", "repeat_x1_xa_term",
     "repeat_x1_xa_term_1_2", "seq_xa_u8", "seq_u8_xa", "seq_any_any_DCBA",
     "lines_u8", "star_empty", "star_either_x1_x1a", "repeat_sep_star_x1_xa",
     "line_either_x1_x1a"}

\* The rule sets whose chain of calls is followed: two that are
\* left-recursive, and the one of test_rule_set.
DescentTops == {"left_parser", "mutual_parser", "value_parser"}

\* The parsers that a parser is built from, itself included.
RECURSIVE Built(_)
Built(id) ==
    IF id = "none" THEN {"none"}
    ELSE {id} \cup Built(Parsers[id].p1) \cup Built(Parsers[id].p2)
              \cup UNION {Built(Parsers[id].rule_parsers[i]) :
                             i \in 1..Len(Parsers[id].rule_parsers)}

\* The parsers that were built for the parse, by id: they do not change
\* during it.
VARIABLE parsers

\* --------------------------------------------------------------- iterators
\* One record shape for every ParseIter struct.  `end` is the `end` of the
\* leaf iterators and the `outer_end` of a region iterator; `iter` is the
\* wrapped child of region, map, string and either iterators (empty or one
\* element).  `start` is kept for every iterator, though only the repeat,
\* string and either structs store it.  `exhausted` is a history field: the
\* backtrack of the iterator has returned Err while its parent kept it.
NoIter ==
    [p |-> "none", start |-> 0, end |-> 0, c |-> "", value |-> 0, source |-> <<>>,
     iter |-> <<>>, head_iter |-> <<>>, tail_iter |-> <<>>,
     pattern_iters |-> <<>>, sep_iters |-> <<>>, side |-> "", exhausted |-> FALSE]

Iter(p, start) == [NoIter EXCEPT !.p = p, !.start = start]

Ok(it, ctx) == [ok |-> TRUE, it |-> it, ctx |-> ctx]

Err(ctx) == [ok |-> FALSE, it |-> NoIter, ctx |-> ctx]

\* `let iter = inner?; Ok(Self { iter, .. })`: the iterator `self` around the
\* iterator of an inner call that succeeded; a failed call has none.
Wrap(self, it) == IF it = NoIter THEN NoIter ELSE [self EXCEPT !.iter = <<it>>]

Last(seq) == seq[Len(seq)]

Pop(seq) == SubSeq(seq, 1, Len(seq) - 1)

\* A call through the Parser or ParseIter trait is dispatched on the kind of
\* the parser.  Call is the one operator through which parse_iter and
\* backtrack reach the implementations, which call them again through it:
\* Call("parse_iter", p, context, start) is p.parse_iter(context, start) and
\* Call("backtrack", iter, context, 0) is iter.backtrack(context).
RECURSIVE Call(_, _, _, _)
parse_iter(p, context, start) == Call("parse_iter", p, context, start)

backtrack(self, context) == Call("backtrack", self, context, 0)

RECURSIVE match_end(_)
RECURSIVE convert(_)
RECURSIVE first_tail_match(_, _, _)
RECURSIVE advance(_, _)
RECURSIVE next(_, _, _)
RECURSIVE match_fully_loop(_, _, _)
RECURSIVE match_fully(_, _, _)
RECURSIVE convert_all(_)

\* ------------------------------------------------------------------ leaves
EmptyParser_parse_iter(p, context, start) ==
    Ok([Iter(p, start) EXCEPT !.end = start], context)

ExactParser_parse_iter(p, context, start) ==
    LET s == parsers[p].s IN
    IF StartsWith(Slice(context.source, start, Len(context.source)), s)
    THEN Ok([Iter(p, start) EXCEPT !.end = start + Len(s)], context)
    ELSE Err(report(context, new_expected(context.source, start, s)))

predicate(noun, c) ==
    CASE noun = "any character" -> TRUE
      [] noun = "decimal digit" -> IsAsciiDigit(c)
      [] noun = "letter" -> IsAlphabetic(c)

CharParser_parse_iter(p, context, start) ==
    LET c == chars_next(context.source, start) IN
    IF c # None /\ predicate(parsers[p].noun, c[1])
    THEN Ok([Iter(p, start) EXCEPT !.c = c[1], !.end = start + Len(Utf8(c[1]))], context)
    ELSE Err(error_expected(context, start, <<parsers[p].noun>>))

\* The loop over options.chars().enumerate() returns at the first x equal to
\* c, with the number i of characters before it; `options.find(c)`, which the
\* source warns against, would give the number of bytes before it.
CharOfParser_parse_iter_bytes(p, context, start) ==
    LET c == chars_next(context.source, start)
        options == parsers[p].s
        found == {i \in 1..Len(options) : c # None /\ options[i] = c[1]}
    IN IF found # {}
       THEN Ok([Iter(p, start) EXCEPT
                    !.value = Len(Encode(SubSeq(options, 1, SetMin(found) - 1))),
                    !.end = start + Len(Utf8(c[1]))], context)
       ELSE Err(error_expected(context, start, <<"one of">> \o options))

CharOfParser_parse_iter(p, context, start) ==
    LET c == chars_next(context.source, start)
        options == parsers[p].s
        found == {i \in 1..Len(options) : c # None /\ options[i] = c[1]}
    IN IF found # {}
       THEN Ok([Iter(p, start) EXCEPT !.value = SetMin(found) - 1,
                                      !.end = start + Len(Utf8(c[1]))], context)
       ELSE Err(error_expected(context, start, <<"one of">> \o options))

\* The match of the anchored regex [0-9]+ in `text`: the length of the
\* maximal leading run of digits, or None when the run is empty.
uint_regex(text) ==
    LET run == SetMax({n \in 0..Len(text) : \A i \in 1..n : IsAsciiDigit(text[i])})
    IN IF run = 0 THEN None ELSE Some(run)

\* The leftmost match of the parser's anchored regex in `text`, as the length
\* of the match: an optional sign (signed types only) and the maximal run of
\* digits of the radix, at least one; "true" or "false" for bool.
regex_find_lazy(p, text) ==
    LET type_name == parsers[p].noun
        sign == IF type_name \in {"i8", "i32"} /\ text # <<>> /\ text[1] \in {"+", "-"}
                THEN 1 ELSE 0
    IN IF type_name = "bool"
       THEN IF Len(text) >= 4 /\ SubSeq(text, 1, 4) = <<"t", "r", "u", "e">> THEN Some(4)
            ELSE IF Len(text) >= 5 /\ SubSeq(text, 1, 5) = <<"f", "a", "l", "s", "e">>
            THEN Some(5) ELSE None
       ELSE IF Len(text) > sign /\ IsAsciiDigit(text[sign + 1]) /\ ToDigit(text[sign + 1]) < parsers[p].radix
       THEN Some(sign + 1) ELSE None

regex_find(p, text) ==
    LET type_name == parsers[p].noun
        radix == parsers[p].radix
        sign == IF type_name \in {"i8", "i32"} /\ text # <<>> /\ text[1] \in {"+", "-"}
                THEN 1 ELSE 0
        class == {"0", "1", "2", "3", "4", "5", "6", "7", "8", "9",
                  "a", "b", "c", "d", "e", "f", "A", "B", "C", "D", "E", "F"}
        run == SetMax({n \in 0..(Len(text) - sign) :
                          \A i \in 1..n : /\ text[sign + i] \in class
                                          /\ ToDigit(text[sign + i]) < radix})
    IN CASE type_name = "bool" ->
              IF Len(text) >= 4 /\ SubSeq(text, 1, 4) = <<"t", "r", "u", "e">> THEN Some(4)
              ELSE IF Len(text) >= 5 /\ SubSeq(text, 1, 5) = <<"f", "a", "l", "s", "e">>
              THEN Some(5) ELSE None
         [] type_name = "u64" -> uint_regex(text)
         [] OTHER -> IF run = 0 THEN None ELSE Some(sign + run)

\* The digit loop of from_str_radix: checked_mul by the radix, then
\* checked_add of the digit (checked_sub for a negative number).  An
\* operation that would leave the range gives None.
RECURSIVE checked_digits_saturating(_, _, _, _, _)
checked_digits_saturating(type_name, digits, radix, negative, acc) ==
    LET range == IntRange(type_name)
        d == ToDigit(digits[1])
    IN IF digits = <<>> THEN Some(acc)
       ELSE IF negative
       THEN IF acc < (range.min + d + radix - 1) \div radix THEN Some(range.min)
            ELSE checked_digits_saturating(type_name, Tail(digits), radix, negative,
                                           acc * radix - d)
       ELSE IF range.max # None /\ acc > (range.max[1] - d) \div radix
       THEN Some(range.max[1])
       ELSE checked_digits_saturating(type_name, Tail(digits), radix, negative,
                                      acc * radix + d)

RECURSIVE checked_digits(_, _, _, _, _)
checked_digits(type_name, digits, radix, negative, acc) ==
    LET range == IntRange(type_name)
        d == ToDigit(digits[1])
    IN IF digits = <<>> THEN Some(acc)
       ELSE IF negative
       THEN IF acc < (range.min + d + radix - 1) \div radix THEN None
            ELSE checked_digits(type_name, Tail(digits), radix, negative, acc * radix - d)
       ELSE IF range.max # None /\ acc > (range.max[1] - d) \div radix THEN None
       ELSE checked_digits(type_name, Tail(digits), radix, negative, acc * radix + d)

\* T::from_str_radix: an empty string and a lone sign are errors; a leading
\* "+" is dropped, a leading "-" of a signed type makes the number negative.
from_str_radix(type_name, src, radix) ==
    LET negative == type_name \in {"i8", "i32"} /\ src # <<>> /\ src[1] = "-"
        digits == IF src # <<>> /\ (negative \/ src[1] = "+") THEN Tail(src) ELSE src
    IN IF digits = <<>> THEN None
       ELSE checked_digits(type_name, digits, radix, negative, 0)

\* <T as FromStr>::from_str: from_str_radix(src, 10) for the integers.
from_str(type_name, run) ==
    IF type_name = "bool" THEN Some(run = <<"t", "r", "u", "e">>)
    ELSE from_str_radix(type_name, run, 10)

RegexParser_parse_iter(p, context, start) ==
    LET source == context.source
        m == regex_find(p, Slice(source, start, Len(source)))
        type_name == parsers[p].noun
    IN IF m = None THEN Err(error_expected(context, start, <<type_name>>))
       ELSE LET matched == Slice(source, start, start + m[1])
                parsed == IF parsers[p].radix = 10 THEN from_str(type_name, matched)
                          ELSE from_str_radix(type_name, matched, parsers[p].radix)
            IN IF parsed # None
               THEN Ok([Iter(p, start) EXCEPT !.end = start + m[1], !.value = parsed[1]],
                       context)
               ELSE Err(error_from_str_failed(context, start, start + m[1], type_name))

\* ---------------------------------------------------------------- sequence
first_tail_match_first_only(context, head, tail) ==
    LET t == Call("parse_iter", tail, context, match_end(head))
    IN IF t.ok THEN [ok |-> TRUE, head |-> head, tail |-> t.it, ctx |-> t.ctx]
       ELSE [ok |-> FALSE, head |-> NoIter, tail |-> NoIter, ctx |-> t.ctx]

first_tail_match(context, head, tail) ==
    LET t == Call("parse_iter", tail, context, match_end(head))
    IN IF t.ok THEN [ok |-> TRUE, head |-> head, tail |-> t.it, ctx |-> t.ctx]
       ELSE LET h == Call("backtrack", head, t.ctx, 0)
            IN IF h.ok THEN first_tail_match(h.ctx, h.it, tail)
               ELSE [ok |-> FALSE, head |-> NoIter, tail |-> NoIter, ctx |-> h.ctx]

SequenceParser_parse_iter(p, context, start) ==
    LET h == Call("parse_iter", parsers[p].p1, context, start)
        m == first_tail_match(h.ctx, h.it, parsers[p].p2)
    IN IF h.ok
       THEN IF m.ok
            THEN Ok([Iter(p, start) EXCEPT !.head_iter = <<m.head>>,
                                           !.tail_iter = <<m.tail>>], m.ctx)
            ELSE Err(m.ctx)
       ELSE Err(h.ctx)

SequenceParseIter_backtrack_stale_tail(self, context) ==
    LET t == Call("backtrack", self.tail_iter[1], context, 0)
        self1 == [self EXCEPT !.tail_iter[1].exhausted = TRUE]
        h == Call("backtrack", self.head_iter[1], t.ctx, 0)
    IN IF t.ok THEN Ok([self EXCEPT !.tail_iter = <<t.it>>], t.ctx)
       ELSE IF h.ok THEN Ok([self1 EXCEPT !.head_iter = <<h.it>>], h.ctx)
       ELSE Err(h.ctx)

SequenceParseIter_backtrack_old_mid(self, context) ==
    LET t == Call("backtrack", self.tail_iter[1], context, 0)
        h == Call("backtrack", self.head_iter[1], t.ctx, 0)
        m == Call("parse_iter", parsers[self.p].p2, h.ctx, match_end(self.head_iter[1]))
    IN IF t.ok THEN Ok([self EXCEPT !.tail_iter = <<t.it>>], t.ctx)
       ELSE IF h.ok
            THEN IF m.ok
                 THEN Ok([self EXCEPT !.head_iter = <<h.it>>, !.tail_iter = <<m.it>>], m.ctx)
                 ELSE Err(m.ctx)
            ELSE Err(h.ctx)

\* A tail_iter whose backtrack failed stays in the struct, exhausted, until
\* `self.tail_iter = tail_iter`.
SequenceParseIter_backtrack(self, context) ==
    LET t == Call("backtrack", self.tail_iter[1], context, 0)
        self1 == [self EXCEPT !.tail_iter[1].exhausted = TRUE]
        h == Call("backtrack", self.head_iter[1], t.ctx, 0)
        m == first_tail_match(h.ctx, h.it, parsers[self.p].p2)
    IN IF t.ok THEN Ok([self EXCEPT !.tail_iter = <<t.it>>], t.ctx)
       ELSE IF h.ok
            THEN IF m.ok
                 THEN Ok([self1 EXCEPT !.head_iter = <<m.head>>,
                                       !.tail_iter = <<m.tail>>], m.ctx)
                 ELSE Err(m.ctx)
            ELSE Err(h.ctx)

\* ------------------------------------------------------------------ repeat
check_repeat_count_no_parity(params, count) ==
    LET expected_parity == IF params.sep_is_terminator THEN 0 ELSE 1
        nmatches == (count + expected_parity) \div 2
    IN /\ params.min <= nmatches
       /\ (params.max = None \/ nmatches <= params.max[1])

check_repeat_count_no_max(params, count) ==
    LET expected_parity == IF params.sep_is_terminator THEN 0 ELSE 1
        nmatches == (count + expected_parity) \div 2
    IN /\ (count = 0 \/ count % 2 = expected_parity)
       /\ params.min <= nmatches

check_repeat_count(params, count) ==
    LET expected_parity == IF params.sep_is_terminator THEN 0 ELSE 1
        nmatches == (count + expected_parity) \div 2
    IN /\ (count = 0 \/ count % 2 = expected_parity)
       /\ params.min <= nmatches
       /\ (params.max = None \/ nmatches <= params.max[1])

num_matches(self) == Len(self.pattern_iters) + Len(self.sep_iters)

is_pattern_next(self) == Len(self.pattern_iters) = Len(self.sep_iters)

end_at_start(self) == self.start

end_of_last_pattern(self) ==
    IF num_matches(self) = 0 THEN self.start
    ELSE match_end(Last(self.pattern_iters))

end(self) ==
    IF num_matches(self) = 0 THEN self.start
    ELSE IF is_pattern_next(self) THEN match_end(Last(self.sep_iters))
    ELSE match_end(Last(self.pattern_iters))

advance_once(self, context) ==
    LET pat == IF is_pattern_next(self)
               THEN Call("parse_iter", parsers[self.p].p1, context, end(self))
               ELSE Ok(NoIter, context)
        self1 == IF is_pattern_next(self)
                 THEN [self EXCEPT !.pattern_iters = Append(@, pat.it)]
                 ELSE self
        sep == Call("parse_iter", parsers[self.p].p2, pat.ctx, end(self1))
    IN IF pat.ok
       THEN IF sep.ok
            THEN [it |-> [self1 EXCEPT !.sep_iters = Append(@, sep.it)], ctx |-> sep.ctx]
            ELSE [it |-> self1, ctx |-> sep.ctx]
       ELSE [it |-> self, ctx |-> pat.ctx]

\* The two assert_eq! at the head of the loop of advance() and in the modes
\* of next(): the context with the stack lengths they were given.
Asserted(self, context) ==
    [context EXCEPT !.asserted =
        @ \cup {<<Len(self.pattern_iters), Len(self.sep_iters)>>}]

advance_pattern_each_turn(self, context) ==
    LET pat == Call("parse_iter", parsers[self.p].p1, Asserted(self, context), end(self))
        self1 == [self EXCEPT !.pattern_iters = Append(@, pat.it)]
        sep == Call("parse_iter", parsers[self.p].p2, pat.ctx, end(self1))
    IN IF num_matches(self) >= MaxMatches
       THEN [it |-> self, ctx |-> [context EXCEPT !.hung = TRUE]]
       ELSE IF pat.ok
       THEN IF sep.ok
            THEN advance([self1 EXCEPT !.sep_iters = Append(@, sep.it)], sep.ctx)
            ELSE [it |-> self1, ctx |-> sep.ctx]
       ELSE [it |-> self, ctx |-> pat.ctx]

\* advance() never succeeds; the result is the iterator and the context at
\* the point where creating a child iterator failed.  A loop that has made
\* MaxMatches iterators is followed no further.
advance(self, context) ==
    LET pat == IF is_pattern_next(self)
               THEN Call("parse_iter", parsers[self.p].p1, Asserted(self, context),
                         end(self))
               ELSE Ok(NoIter, Asserted(self, context))
        self1 == IF is_pattern_next(self)
                 THEN [self EXCEPT !.pattern_iters = Append(@, pat.it)]
                 ELSE self
        sep == Call("parse_iter", parsers[self.p].p2, pat.ctx, end(self1))
    IN IF num_matches(self) >= MaxMatches
       THEN [it |-> self, ctx |-> [context EXCEPT !.hung = TRUE]]
       ELSE IF pat.ok
       THEN IF sep.ok
            THEN advance([self1 EXCEPT !.sep_iters = Append(@, sep.it)], sep.ctx)
            ELSE [it |-> self1, ctx |-> sep.ctx]
       ELSE [it |-> self, ctx |-> pat.ctx]

\* The top iterator whose backtrack failed stays on its stack, exhausted,
\* until the Exhausted mode pops it.
next(self, context, mode) ==
    CASE mode = "BacktrackTopIter" ->
            IF num_matches(self) = 0 THEN Err(Asserted(self, context))
            ELSE LET backtrack_result ==
                         IF is_pattern_next(self)
                         THEN Call("backtrack", Last(self.sep_iters),
                                   Asserted(self, context), 0)
                         ELSE Call("backtrack", Last(self.pattern_iters),
                                   Asserted(self, context), 0)
                 IN IF backtrack_result.ok
                    THEN next(IF is_pattern_next(self)
                              THEN [self EXCEPT !.sep_iters = Append(Pop(@), backtrack_result.it)]
                              ELSE [self EXCEPT !.pattern_iters =
                                                    Append(Pop(@), backtrack_result.it)],
                              backtrack_result.ctx, "Advance")
                    ELSE next(IF is_pattern_next(self)
                              THEN [self EXCEPT !.sep_iters[Len(self.sep_iters)].exhausted = TRUE]
                              ELSE [self EXCEPT
                                       !.pattern_iters[Len(self.pattern_iters)].exhausted = TRUE],
                              backtrack_result.ctx, "Exhausted")
      [] mode = "Advance" ->
            LET a == advance(self, context)
            IN next(a.it, a.ctx, "YieldThenBacktrack")
      [] mode = "Exhausted" ->
            next(IF is_pattern_next(self)
                 THEN [self EXCEPT !.sep_iters = Pop(@)]
                 ELSE [self EXCEPT !.pattern_iters = Pop(@)],
                 Asserted(self, context), "YieldThenBacktrack")
      [] mode = "YieldThenBacktrack" ->
            IF check_repeat_count(parsers[self.p], num_matches(self))
            THEN Ok(self, context)
            ELSE next(self, context, "BacktrackTopIter")

RepeatParser_parse_iter(p, context, start) == next(Iter(p, start), context, "Advance")

RepeatParseIter_backtrack_pop_only(self, context) ==
    IF num_matches(self) = 0 THEN Err(context) ELSE next(self, context, "Exhausted")

RepeatParseIter_backtrack(self, context) == next(self, context, "BacktrackTopIter")

\* ----------------------------------------------------------------- regions
check_at_start(R, context, start) ==
    LET source == context.source IN
    IF R = "Line"
    THEN IF start = 0 \/ source[start] = "\n"
         THEN [ok |-> TRUE, ctx |-> context]
         ELSE [ok |-> FALSE, ctx |-> report(context, new_bad_line_start(source, start))]
    ELSE IF \/ start = 0
            \/ Slice(source, 0, start) = <<"\n">>
            \/ (start >= 2 /\ Slice(source, start - 2, start) = <<"\n", "\n">>)
         THEN [ok |-> TRUE, ctx |-> context]
         ELSE [ok |-> FALSE, ctx |-> report(context, new_bad_section_start(source, start))]

find_end_before_delimiter(R, context, start) ==
    LET source == context.source
        found == FindOffsets(source, start, IF R = "Line" THEN <<"\n">> ELSE <<"\n", "\n">>)
        delim == IF R = "Line" THEN 0 ELSE 1
    IN IF found # {}
       THEN [ok |-> TRUE, inner_end |-> start + SetMin(found) + delim,
             outer_end |-> start + SetMin(found) + delim, ctx |-> context]
       ELSE IF (IF R = "Line" THEN start # Len(source) ELSE start < Len(source))
       THEN [ok |-> TRUE, inner_end |-> Len(source), outer_end |-> Len(source),
             ctx |-> context]
       ELSE [ok |-> FALSE, inner_end |-> 0, outer_end |-> 0,
             ctx |-> error_expected(context, Len(source),
                                    IF R = "Line" THEN <<"line">> ELSE <<"section">>)]

find_end_without_newline(R, context, start) ==
    LET source == context.source
        found == FindOffsets(source, start, IF R = "Line" THEN <<"\n">> ELSE <<"\n", "\n">>)
        delim == IF R = "Line" THEN 0 ELSE 1
    IN IF found # {}
       THEN [ok |-> TRUE, inner_end |-> start + SetMin(found),
             outer_end |-> start + SetMin(found) + delim + 1, ctx |-> context]
       ELSE IF (IF R = "Line" THEN start # Len(source) ELSE start < Len(source))
       THEN [ok |-> TRUE, inner_end |-> Len(source), outer_end |-> Len(source),
             ctx |-> context]
       ELSE [ok |-> FALSE, inner_end |-> 0, outer_end |-> 0,
             ctx |-> error_expected(context, Len(source),
                                    IF R = "Line" THEN <<"line">> ELSE <<"section">>)]

find_end_at_end_of_text(R, context, start) ==
    LET source == context.source
        found == FindOffsets(source, start, IF R = "Line" THEN <<"\n">> ELSE <<"\n", "\n">>)
        delim == IF R = "Line" THEN 0 ELSE 1
    IN IF found # {}
       THEN [ok |-> TRUE, inner_end |-> start + SetMin(found) + delim,
             outer_end |-> start + SetMin(found) + delim + 1, ctx |-> context]
       ELSE [ok |-> TRUE, inner_end |-> Len(source), outer_end |-> Len(source),
             ctx |-> context]

find_end(R, context, start) ==
    LET source == context.source
        found == FindOffsets(source, start, IF R = "Line" THEN <<"\n">> ELSE <<"\n", "\n">>)
        delim == IF R = "Line" THEN 0 ELSE 1
    IN IF found # {}
       THEN [ok |-> TRUE, inner_end |-> start + SetMin(found) + delim,
             outer_end |-> start + SetMin(found) + delim + 1, ctx |-> context]
       ELSE IF (IF R = "Line" THEN start # Len(source) ELSE start < Len(source))
       THEN [ok |-> TRUE, inner_end |-> Len(source), outer_end |-> Len(source),
             ctx |-> context]
       ELSE [ok |-> FALSE, inner_end |-> 0, outer_end |-> 0,
             ctx |-> error_expected(context, Len(source),
                                    IF R = "Line" THEN <<"line">> ELSE <<"section">>)]

report_incomplete_match_silent(R, context, at) == context

report_incomplete_match(R, context, at) ==
    IF R = "Line" THEN report(context, new_line_extra(context.source, at))
    ELSE report(context, new_section_extra(context.source, at))

match_fully_loop_first_only(R, context, iter) ==
    IF match_end(iter) # Len(context.source)
    THEN Err(report_incomplete_match(R, context, match_end(iter)))
    ELSE Ok(iter, context)

match_fully_loop(R, context, iter) ==
    IF match_end(iter) # Len(context.source)
    THEN LET b == backtrack(iter, report_incomplete_match(R, context, match_end(iter)))
         IN IF b.ok THEN match_fully_loop(R, b.ctx, b.it) ELSE Err(b.ctx)
    ELSE Ok(iter, context)

match_fully(R, context, parser) ==
    LET r == Call("parse_iter", parser, context, 0)
    IN IF r.ok THEN match_fully_loop(R, r.ctx, r.it) ELSE Err(r.ctx)

\* with_slice for the closure that RegionParser::parse_iter passes, which
\* captures R and the wrapped parser and calls match_fully.  `closed` gets
\* the records of the contexts nested in the child and then one for the
\* child: its slice, its result, its log and foremost error, and this
\* context's log and foremost error before and after the exit.
SliceRecord(self, start, slice_end, r, after) ==
    [start |-> start, end |-> slice_end, ok |-> r.ok,
     foremost_error |-> r.ctx.foremost_error, log |-> r.ctx.log,
     parent_log_before |-> self.log, parent_log |-> after.log,
     parent_foremost_before |-> self.foremost_error,
     parent_foremost |-> after.foremost_error,
     rule_sets |-> r.ctx.rule_sets, parent_len |-> Len(self.source),
     parent_rule_sets_before |-> self.rule_sets, parent_rule_sets |-> after.rule_sets]

SliceExit(self, start, slice_end, r, after) ==
    [ok |-> r.ok, it |-> r.it,
     ctx |-> [after EXCEPT !.closed = @ \o r.ctx.closed
                                        \o <<SliceRecord(self, start, slice_end, r, after)>>,
                           !.calls = @ \o r.ctx.calls,
                           !.fetched = @ \o r.ctx.fetched,
                           !.asserted = @ \cup r.ctx.asserted,
                           !.hung = @ \/ r.ctx.hung]]

\* The two std::mem::swap of with_slice: the nested context starts with the
\* rule sets of `self`, and `self` gets them back, with those registered in
\* between, when the closure has returned.
Nested(self, start, slice_end) ==
    [new(Slice(self.source, start, slice_end))
        EXCEPT !.rule_sets = self.rule_sets, !.depth = self.depth + 1]

SwappedBack(self, inner_context) == [self EXCEPT !.rule_sets = inner_context.rule_sets]

with_slice_always(self, start, slice_end, R, parser) ==
    LET r == match_fully(R, Nested(self, start, slice_end), parser)
    IN SliceExit(self, start, slice_end, r,
                 IF r.ctx.foremost_error # None
                 THEN report(SwappedBack(self, r.ctx),
                             adjust_location(into_reported_error(r.ctx), self.source, start))
                 ELSE SwappedBack(self, r.ctx))

with_slice_unshifted(self, start, slice_end, R, parser) ==
    LET r == match_fully(R, Nested(self, start, slice_end), parser)
    IN SliceExit(self, start, slice_end, r,
                 IF ~r.ok THEN report(SwappedBack(self, r.ctx), into_reported_error(r.ctx))
                 ELSE SwappedBack(self, r.ctx))

with_slice_forgetful(self, start, slice_end, R, parser) ==
    LET r == match_fully(R, Nested(self, start, slice_end), parser)
    IN SliceExit(self, start, slice_end, r,
                 IF ~r.ok
                 THEN report(self, adjust_location(into_reported_error(r.ctx),
                                                   self.source, start))
                 ELSE self)

with_slice(self, start, slice_end, R, parser) ==
    LET r == match_fully(R, Nested(self, start, slice_end), parser)
    IN SliceExit(self, start, slice_end, r,
                 IF ~r.ok
                 THEN report(SwappedBack(self, r.ctx),
                             adjust_location(into_reported_error(r.ctx), self.source, start))
                 ELSE SwappedBack(self, r.ctx))

RegionParser_parse_iter(p, context, start) ==
    LET R == parsers[p].noun
        s == check_at_start(R, context, start)
        e == find_end(R, s.ctx, start)
        r == with_slice(e.ctx, start, e.inner_end, R, parsers[p].p1)
    IN IF s.ok
       THEN IF e.ok
            THEN IF r.ok
                 THEN Ok([Iter(p, start) EXCEPT !.iter = <<r.it>>,
                                                !.end = e.outer_end], r.ctx)
                 ELSE Err(r.ctx)
            ELSE Err(e.ctx)
       ELSE Err(s.ctx)

RegionParseIter_backtrack_reporting(self, context) ==
    [ok |-> FALSE, it |-> self,
     ctx |-> report_incomplete_match(parsers[self.p].noun, context, self.end)]

\* The failed call leaves the iterator as it was.
RegionParseIter_backtrack(self, context) == [ok |-> FALSE, it |-> self, ctx |-> context]

\* ----------------------------------------------------------- map and string
MapParser_parse_iter_eager(p, context, start) ==
    LET r == Call("parse_iter", parsers[p].p1, context, start)
    IN IF r.ok
       THEN Ok([Iter(p, start) EXCEPT !.iter = <<r.it>>],
               [r.ctx EXCEPT !.calls = Append(@, [p |-> p, start |-> start])])
       ELSE Err(r.ctx)

MapParser_parse_iter(p, context, start) ==
    [Call("parse_iter", parsers[p].p1, context, start) EXCEPT !.it = Wrap(Iter(p, start), @)]

MapParseIter_backtrack(self, context) ==
    [Call("backtrack", self.iter[1], context, 0) EXCEPT !.it = Wrap(self, @)]

StringParser_parse_iter(p, context, start) ==
    [Call("parse_iter", parsers[p].p1, context, start) EXCEPT
        !.it = Wrap([Iter(p, start) EXCEPT !.source = context.source], @)]

StringParseIter_backtrack(self, context) ==
    [Call("backtrack", self.iter[1], context, 0) EXCEPT !.it = Wrap(self, @)]

\* ------------------------------------------------------------- alternation
EitherParser_parse_iter_right_first(p, context, start) ==
    LET r == Call("parse_iter", parsers[p].p2, context, start)
    IN IF r.ok THEN Ok([Iter(p, start) EXCEPT !.iter = <<r.it>>, !.side = "Right"], r.ctx)
       ELSE [Call("parse_iter", parsers[p].p1, r.ctx, start) EXCEPT
                !.it = Wrap([Iter(p, start) EXCEPT !.side = "Left"], @)]

EitherParser_parse_iter(p, context, start) ==
    LET l == Call("parse_iter", parsers[p].p1, context, start)
    IN IF l.ok THEN Ok([Iter(p, start) EXCEPT !.iter = <<l.it>>, !.side = "Left"], l.ctx)
       ELSE [Call("parse_iter", parsers[p].p2, l.ctx, start) EXCEPT
                !.it = Wrap([Iter(p, start) EXCEPT !.side = "Right"], @)]

EitherParseIter_backtrack(self, context) ==
    IF self.side = "Left"
    THEN LET l == Call("backtrack", self.iter[1], context, 0)
         IN IF l.ok THEN Ok([self EXCEPT !.iter = <<l.it>>], l.ctx)
            ELSE [Call("parse_iter", parsers[self.p].p2, l.ctx, self.start) EXCEPT
                     !.it = Wrap([self EXCEPT !.side = "Right"], @)]
    ELSE [Call("backtrack", self.iter[1], context, 0) EXCEPT !.it = Wrap(self, @)]

\* DynParser, and DynParseIter, which hands every call on to the iterator it
\* boxes.
DynParser_parse_iter(p, context, start) ==
    [Call("parse_iter", parsers[p].p1, context, start) EXCEPT !.it = Wrap(Iter(p, start), @)]

DynParseIter_backtrack(self, context) ==
    [Call("backtrack", self.iter[1], context, 0) EXCEPT !.it = Wrap(self, @)]

\* The iterator of a rule is the DynParseIter of the parser fetched.
RuleParser_parse_iter(p, context, start) ==
    LET parser == fetch_parser_for_rule(context, parsers[p].rule_set_id, parsers[p].index)
    IN Call("parse_iter", parser,
            Fetched(context, parsers[p].rule_set_id, parsers[p].index, parser), start)

RuleSetParser_parse_iter(p, context, start) ==
    Call("parse_iter", parsers[p].p1,
               register_rule_set(context, parsers[p].rule_set_id, parsers[p].rule_parsers),
               start)
\* ---------------------------------------------------- the Parser/ParseIter traits
Call(method, a, b, c) ==
    CASE method = "parse_iter" /\ parsers[a].kind = "empty" -> EmptyParser_parse_iter(a, b, c)
      [] method = "parse_iter" /\ parsers[a].kind = "exact" -> ExactParser_parse_iter(a, b, c)
      [] method = "parse_iter" /\ parsers[a].kind = "char" -> CharParser_parse_iter(a, b, c)
      [] method = "parse_iter" /\ parsers[a].kind = "char_of" -> CharOfParser_parse_iter(a, b, c)
      [] method = "parse_iter" /\ parsers[a].kind = "regex" -> RegexParser_parse_iter(a, b, c)
      [] method = "parse_iter" /\ parsers[a].kind = "sequence" -> SequenceParser_parse_iter(a, b, c)
      [] method = "parse_iter" /\ parsers[a].kind = "repeat" -> RepeatParser_parse_iter(a, b, c)
      [] method = "parse_iter" /\ parsers[a].kind = "region" -> RegionParser_parse_iter(a, b, c)
      [] method = "parse_iter" /\ parsers[a].kind = "map" -> MapParser_parse_iter(a, b, c)
      [] method = "parse_iter" /\ parsers[a].kind = "string" -> StringParser_parse_iter(a, b, c)
      [] method = "parse_iter" /\ parsers[a].kind = "either" -> EitherParser_parse_iter(a, b, c)
      [] method = "parse_iter" /\ parsers[a].kind = "dyn" -> DynParser_parse_iter(a, b, c)
      [] method = "parse_iter" /\ parsers[a].kind = "rule" -> RuleParser_parse_iter(a, b, c)
      [] method = "parse_iter" /\ parsers[a].kind = "rule_set" -> RuleSetParser_parse_iter(a, b, c)
      [] method = "backtrack" /\ parsers[a.p].kind \in {"empty", "exact", "char", "char_of", "regex"} -> Err(b)
      [] method = "backtrack" /\ parsers[a.p].kind = "sequence" -> SequenceParseIter_backtrack(a, b)
      [] method = "backtrack" /\ parsers[a.p].kind = "repeat" -> RepeatParseIter_backtrack(a, b)
      [] method = "backtrack" /\ parsers[a.p].kind = "region" -> RegionParseIter_backtrack(a, b)
      [] method = "backtrack" /\ parsers[a.p].kind = "map" -> MapParseIter_backtrack(a, b)
      [] method = "backtrack" /\ parsers[a.p].kind = "string" -> StringParseIter_backtrack(a, b)
      [] method = "backtrack" /\ parsers[a.p].kind = "either" -> EitherParseIter_backtrack(a, b)
      [] method = "backtrack" /\ parsers[a.p].kind = "dyn" -> DynParseIter_backtrack(a, b)

match_end(self) ==
    CASE parsers[self.p].kind \in {"empty", "exact", "char", "char_of", "regex", "region"} -> self.end
      [] parsers[self.p].kind = "sequence" -> match_end(self.tail_iter[1])
      [] parsers[self.p].kind = "repeat" -> end(self)
      [] parsers[self.p].kind \in {"map", "string", "either", "dyn"} ->
            match_end(self.iter[1])

\* ------------------------------------------------------------------ convert
\* A RawOutput is a tuple; into_user_type unwraps a 1-tuple and leaves the
\* unit and the longer tuples alone.
into_user_type(raw) == IF Len(raw) = 1 THEN raw[1] ELSE raw

\* Mapping::apply.  A closure mapper other than to_digit is opaque: its
\* result is the record of its call.
apply(mapper, raw) ==
    CASE mapper = "to_digit" -> <<ToDigit(into_user_type(raw))>>
      [] mapper = "Skip" -> <<>>
      [] mapper = "SingleValue" -> <<into_user_type(raw)>>
      [] mapper = "into_inner" -> <<into_user_type(raw).value>>
      [] mapper = "opt" -> <<IF into_user_type(raw).side = "Left"
                             THEN Some(into_user_type(raw).value) ELSE None>>
      [] mapper = "EmptyList" -> <<[f |-> "List", arg |-> <<>>]>>
      [] mapper = "List" -> <<[f |-> "List", arg |-> raw[2][1]]>>
      [] OTHER -> <<[f |-> mapper, arg |-> into_user_type(raw)]>>

IsClosure(mapper) == mapper \notin {"Skip", "SingleValue", "into_inner"}

\* convert yields the raw output and, in `calls`, the closure mappers it
\* invoked, in order, each with the start of the match it converted.
Converted(raw, calls) == [raw |-> raw, calls |-> calls]

convert_all(iters) ==
    IF iters = <<>> THEN Converted(<<>>, <<>>)
    ELSE LET rest == convert_all(Pop(iters))
             v == convert(Last(iters))
         IN Converted(Append(rest.raw, into_user_type(v.raw)), rest.calls \o v.calls)

MapParseIter_into_raw_output(self) ==
    [convert(self.iter[1]) EXCEPT
        !.raw = apply(parsers[self.p].mapper, @),
        !.calls = IF IsClosure(parsers[self.p].mapper)
                  THEN Append(@, [p |-> self.p, start |-> self.start])
                  ELSE @]

StringParseIter_convert_first_candidate(self) ==
    LET first == parse_iter(parsers[self.p].p1, new(self.source), self.start)
    IN Converted(<<Slice(self.source, self.start, match_end(first.it))>>, <<>>)

StringParseIter_convert(self) ==
    Converted(<<Slice(self.source, self.start, match_end(self.iter[1]))>>, <<>>)

RepeatParseIter_convert_with_seps(self) ==
    LET v == convert_all(self.pattern_iters \o self.sep_iters)
    IN Converted(<<v.raw>>, v.calls)

RepeatParseIter_convert(self) ==
    LET v == convert_all(self.pattern_iters) IN Converted(<<v.raw>>, v.calls)

SequenceParseIter_convert(self) ==
    LET head == convert(self.head_iter[1])
        tail == convert(self.tail_iter[1])
    IN Converted(IF parsers[self.p].op = "Concat" THEN head.raw \o tail.raw
                 ELSE <<into_user_type(head.raw), into_user_type(tail.raw)>>,
                 head.calls \o tail.calls)

RegionParseIter_convert(self) ==
    [convert(self.iter[1]) EXCEPT !.raw = <<into_user_type(@)>>]

EitherParseIter_convert(self) ==
    [convert(self.iter[1]) EXCEPT
        !.raw = <<[side |-> self.side, value |-> into_user_type(@)]>>]

convert(self) ==
    CASE parsers[self.p].kind \in {"empty", "exact"} -> Converted(<<>>, <<>>)
      [] parsers[self.p].kind = "char" -> Converted(<<self.c>>, <<>>)
      [] parsers[self.p].kind \in {"regex", "char_of"} -> Converted(<<self.value>>, <<>>)
      [] parsers[self.p].kind = "sequence" -> SequenceParseIter_convert(self)
      [] parsers[self.p].kind = "repeat" -> RepeatParseIter_convert(self)
      [] parsers[self.p].kind = "region" -> RegionParseIter_convert(self)
      [] parsers[self.p].kind = "map" -> MapParseIter_into_raw_output(self)
      [] parsers[self.p].kind = "string" -> StringParseIter_convert(self)
      [] parsers[self.p].kind = "either" -> EitherParseIter_convert(self)
      [] parsers[self.p].kind = "dyn" -> convert(self.iter[1])

\* ------------------------------------------------------------- rule sets
\* A RuleSetBuilder, and the RuleSetParser it is built into: `id` is the
\* address of its boxed byte, which is its own while it lives.  `state` tells
\* whether the value exists: "none" before new(), "live", "built" once
\* build() has moved it into a RuleSetParser, "dropped" when it is gone and
\* its box is free again.
NoBuilder ==
    [state |-> "none", id |-> 0, capacity |-> 0, rule_parsers |-> <<>>,
     entry_parser |-> "none"]

RuleSetBuilder_new(id) == [NoBuilder EXCEPT !.state = "live", !.id = id]

\* new_rule: the builder afterwards, and the RuleParser returned.
new_rule(self) ==
    [self |-> [self EXCEPT !.capacity = @ + 1],
     rule |-> [rule_set_id |-> self.id, index |-> self.capacity]]

\* assign_parser_for_rule: the builder afterwards, or the panic of one of the
\* two assert_eq!.
assign_parser_for_rule(self, nt, p) ==
    IF nt.rule_set_id # self.id \/ nt.index # Len(self.rule_parsers)
    THEN [panicked |-> TRUE, self |-> self]
    ELSE [panicked |-> FALSE, self |-> [self EXCEPT !.rule_parsers = Append(@, p)]]

build(self, p) == [self EXCEPT !.state = "built", !.entry_parser = p]

Builders == {"b1", "b2"}

Addresses == 1..MaxAddress

\* ------------------------------------------------------- the parse of a text
VARIABLES parser, source, pc, iter, context, result, calls, candidates, request,
          builders, rules, assigned, frames, history

vars ==
    <<parsers, parser, source, pc, iter, context, result, calls, candidates, request,
      builders, rules, assigned, frames, history>>

\* The variables of a parse, and those of the rule set builders.
parse_vars ==
    <<parsers, parser, source, pc, iter, context, result, calls, candidates, request>>

builder_vars == <<builders, rules, assigned>>

\* A constructor call that precedes the parse: repeat_min_max(pattern, min, max).
NoRequest == [f |-> "", pattern |-> "none", min |-> 0, max |-> 0]

Requests ==
    [f : {"repeat_min_max"}, pattern : {"digit"}, min : 0..MaxCount, max : 0..MaxCount]

NoResult == [ok |-> FALSE, value |-> None, error |-> None]

Init ==
    /\ \/ /\ parser \in Tops
          /\ request = NoRequest
          /\ parsers = [id \in Built(parser) |-> Parsers[id]]
          /\ pc = "start"
       \/ /\ parser = "made"
          /\ request \in Requests
          /\ parsers = [id \in Built(request.pattern) \cup {"empty"} |-> Parsers[id]]
          /\ pc = "build"
    /\ source \in IF parser \in RuleTops THEN RuleTexts
                   ELSE IF parser \in NumberTops THEN NumberTexts(parser)
                   ELSE IF parser \in OptTops THEN OptTexts
                   ELSE IF parser \in CharOfTops \cup {"seq_any_any_DCBA"} THEN CharOfTexts
                   ELSE Texts(IF parser \in RegionTops \cup LineTops \cup SectionTops
                                            \cup RuleRegionTops \cup {"lines_string", "lines_u8"}
                              THEN MaxRegionLen ELSE MaxLen)
    /\ iter = NoIter
    /\ context = new(source)
    /\ result = NoResult
    /\ calls = <<>>
    /\ candidates = <<>>
    /\ builders = [b \in Builders |-> NoBuilder]
    /\ rules = {}
    /\ assigned = <<>>
    /\ frames = <<>>
    /\ history = <<>>

\* The constructor call: the parser it returns is the one parse() is called
\* on; a panic ends the program.
Build ==
    /\ pc = "build"
    /\ LET made == repeat_min_max(request.pattern, request.min, request.max)
       IN IF made.panicked
          THEN /\ pc' = "panicked"
               /\ parsers' = parsers
          ELSE /\ pc' = "start"
               /\ parsers' = [id \in DOMAIN parsers \cup {parser} |->
                                 IF id = parser THEN made.parser ELSE parsers[id]]
    /\ UNCHANGED <<parser, source, iter, context, result, calls, candidates, request>>
    /\ UNCHANGED builder_vars
    /\ UNCHANGED <<frames, history>>

\* Parser::parse up to its first candidate.  pc = "hung" is the call that
\* does not return.
ParseStart ==
    /\ pc = "start"
    /\ LET r == parse_iter(parser, context, 0)
       IN /\ context' = r.ctx
          /\ iter' = r.it
          /\ calls' = r.ctx.calls
          /\ IF r.ctx.hung
             THEN /\ pc' = "hung"
                  /\ candidates' = candidates
                  /\ result' = result
             ELSE IF r.ok
             THEN /\ pc' = "matching"
                  /\ candidates' = Append(candidates, match_end(r.it))
                  /\ result' = result
             ELSE /\ pc' = "done"
                  /\ candidates' = candidates
                  /\ result' = [ok |-> FALSE, value |-> None,
                                error |-> Some(into_reported_error(r.ctx))]
    /\ UNCHANGED <<parsers, parser, source, request>>
    /\ UNCHANGED builder_vars
    /\ UNCHANGED <<frames, history>>

\* One turn of the loop of Parser::parse: the candidate ends early.
ParseBacktrack ==
    /\ pc = "matching"
    /\ match_end(iter) # Len(source)
    /\ LET r == backtrack(iter, error_extra(context, match_end(iter)))
       IN /\ context' = r.ctx
          /\ iter' = r.it
          /\ calls' = r.ctx.calls
          /\ IF r.ctx.hung
             THEN /\ pc' = "hung"
                  /\ candidates' = candidates
                  /\ result' = result
             ELSE IF r.ok
             THEN /\ pc' = "matching"
                  /\ candidates' = Append(candidates, match_end(r.it))
                  /\ result' = result
             ELSE /\ pc' = "done"
                  /\ candidates' = candidates
                  /\ result' = [ok |-> FALSE, value |-> None,
                                error |-> Some(into_reported_error(r.ctx))]
    /\ UNCHANGED <<parsers, parser, source, request>>
    /\ UNCHANGED builder_vars
    /\ UNCHANGED <<frames, history>>

\* The exit of the loop: the candidate covers the text and is converted.
ParseConvert ==
    /\ pc = "matching"
    /\ match_end(iter) = Len(source)
    /\ LET v == convert(iter)
       IN /\ result' = [ok |-> TRUE, value |-> Some(into_user_type(v.raw)), error |-> None]
          /\ calls' = calls \o v.calls
    /\ pc' = "done"
    /\ UNCHANGED <<parsers, parser, source, iter, context, candidates, request>>
    /\ UNCHANGED builder_vars
    /\ UNCHANGED <<frames, history>>

Next == Build \/ ParseStart \/ ParseBacktrack \/ ParseConvert

Spec == Init /\ [][Next]_vars

\* ------------------------------------------------- the use of rule set builders
\* A program that makes builders, declares rules, assigns parsers to rules,
\* drops builders and builds rule sets, in any order.  `by` in a rule and the
\* list `assigned` are not data of the program: they keep which builder's
\* new_rule returned the rule, and which assignments returned.
BuilderInit ==
    /\ pc = "builder"
    /\ builders = [b \in Builders |-> NoBuilder]
    /\ rules = {}
    /\ assigned = <<>>
    /\ frames = <<>>
    /\ history = <<>>
    /\ parser = "none"
    /\ parsers = [id \in {"none"} |-> Parsers[id]]
    /\ source = <<>>
    /\ iter = NoIter
    /\ context = new(<<>>)
    /\ result = NoResult
    /\ calls = <<>>
    /\ candidates = <<>>
    /\ request = NoRequest

\* The addresses that no box of a live builder or rule set parser has.
Free == Addresses \ {builders[b].id : b \in {c \in Builders : builders[c].state \in {"live", "built"}}}

\* RuleSetBuilder::new(): Box::pin(0) gets any free address.
New ==
    /\ pc = "builder"
    /\ \E b \in Builders : \E id \in Free :
          /\ builders[b].state = "none"
          /\ builders' = [builders EXCEPT ![b] = RuleSetBuilder_new(id)]
    /\ UNCHANGED <<rules, assigned>>
    /\ UNCHANGED parse_vars
    /\ UNCHANGED <<frames, history>>

NewRule ==
    /\ pc = "builder"
    /\ \E b \in Builders :
          /\ builders[b].state = "live"
          /\ builders[b].capacity < MaxRules
          /\ LET r == new_rule(builders[b])
             IN /\ builders' = [builders EXCEPT ![b] = r.self]
                /\ rules' = rules \cup {[rule_set_id |-> r.rule.rule_set_id,
                                          index |-> r.rule.index, by |-> b]}
    /\ UNCHANGED assigned
    /\ UNCHANGED parse_vars
    /\ UNCHANGED <<frames, history>>

AssignParserForRule ==
    /\ pc = "builder"
    /\ \E b \in Builders : \E nt \in rules : \E p \in {"x1", "xa"} :
          /\ builders[b].state = "live"
          /\ LET r == assign_parser_for_rule(builders[b], nt, p)
             IN IF r.panicked
                THEN /\ pc' = "panicked"
                     /\ UNCHANGED <<builders, assigned>>
                ELSE /\ pc' = pc
                     /\ builders' = [builders EXCEPT ![b] = r.self]
                     /\ assigned' = Append(assigned, [to |-> b, rule |-> nt, parser |-> p])
    /\ UNCHANGED rules
    /\ UNCHANGED <<parsers, parser, source, iter, context, result, calls, candidates,
                   request>>
    /\ UNCHANGED <<frames, history>>

\* build(): the builder is moved into the RuleSetParser, with its box.
Build_rule_set ==
    /\ pc = "builder"
    /\ \E b \in Builders :
          /\ builders[b].state = "live"
          /\ builders' = [builders EXCEPT ![b] = build(@, "x1")]
    /\ UNCHANGED <<rules, assigned>>
    /\ UNCHANGED parse_vars
    /\ UNCHANGED <<frames, history>>

\* A builder or a rule set parser goes out of scope: its box is freed.  The
\* rules it returned are Copy values without a lifetime and stay.
Drop ==
    /\ pc = "builder"
    /\ \E b \in Builders :
          /\ builders[b].state \in {"live", "built"}
          /\ builders' = [builders EXCEPT ![b].state = "dropped"]
    /\ UNCHANGED <<rules, assigned>>
    /\ UNCHANGED parse_vars
    /\ UNCHANGED <<frames, history>>

BuilderNext == New \/ NewRule \/ AssignParserForRule \/ Build_rule_set \/ Drop

BuilderSpec == BuilderInit /\ [][BuilderNext]_vars

\* ------------------------------------------------------- parse after parse
\* A program that calls parse on one parser time after time, with any texts
\* in any order.  `history` is not data of the program: it keeps the text and
\* the result of each call that returned.
RepeatTops == {"seq_xa_u8", "either_x1_x1a", "sections_parser"}

RepeatTexts ==
    {<<>>, <<"1">>, <<"a">>, <<"a", "1">>, <<"a", "a">>, <<"1", "\n">>, <<"1", "\n", "a">>}

RepeatInit ==
    /\ pc = "start"
    /\ parser \in RepeatTops
    /\ parsers = [id \in Built(parser) |-> Parsers[id]]
    /\ source \in RepeatTexts
    /\ context = new(source)
    /\ iter = NoIter
    /\ result = NoResult
    /\ calls = <<>>
    /\ candidates = <<>>
    /\ request = NoRequest
    /\ builders = [b \in Builders |-> NoBuilder]
    /\ rules = {}
    /\ assigned = <<>>
    /\ frames = <<>>
    /\ history = <<>>

parse_context_kept(s) == [context EXCEPT !.source = s]

\* The context that Parser::parse makes for the text it is given.
parse_context(s) == new(s)

\* The call has returned; the program calls parse again.
ParseAgain ==
    /\ pc = "done"
    /\ Len(history) < MaxAgain
    /\ history' = Append(history, [source |-> source, result |-> result])
    /\ \E s \in RepeatTexts :
          /\ source' = s
          /\ context' = parse_context(s)
    /\ pc' = "start"
    /\ iter' = NoIter
    /\ result' = NoResult
    /\ calls' = <<>>
    /\ candidates' = <<>>
    /\ UNCHANGED <<parsers, parser, request>>
    /\ UNCHANGED builder_vars
    /\ UNCHANGED frames

RepeatNext == ParseStart \/ ParseBacktrack \/ ParseConvert \/ ParseAgain

RepeatSpec == RepeatInit /\ [][RepeatNext]_vars

\* ------------------------------------------------- the chain of parse_iter calls
\* The calls of parse_iter that are active, outermost first, while the first
\* of them has not seen any call return: `frames` holds the parser and the
\* start of each.  Every parse_iter but that of a leaf begins with a call of
\* parse_iter at its own start, whatever the text is: a rule set on its
\* entry parser once it has registered its rules, a rule on the parser
\* fetched, DynParser, MapParser and StringParser on the parser they wrap, a
\* sequence on its head, an alternation on its left side, a repeat on its
\* pattern.
DescentInit ==
    /\ pc = "descend"
    /\ parser \in DescentTops
    /\ parsers = [id \in Built(parser) |-> Parsers[id]]
    /\ source \in UNION {[1..n -> {"x", "y"}] : n \in 0..MaxLeftLen}
    /\ context = new(source)
    /\ \E start \in 0..Len(source) : frames = <<[p |-> parser, start |-> start]>>
    /\ history = <<>>
    /\ iter = NoIter
    /\ result = NoResult
    /\ calls = <<>>
    /\ candidates = <<>>
    /\ request = NoRequest
    /\ builders = [b \in Builders |-> NoBuilder]
    /\ rules = {}
    /\ assigned = <<>>

Leaves == {"empty", "exact", "char", "char_of", "regex"}

\* RuleSetParser::parse_iter: register_rule_set, then entry_parser.parse_iter.
EnterRuleSet ==
    /\ pc = "descend"
    /\ Len(frames) < MaxDepth
    /\ LET top == Last(frames)
       IN /\ parsers[top.p].kind = "rule_set"
          /\ context' = register_rule_set(context, parsers[top.p].rule_set_id,
                                          parsers[top.p].rule_parsers)
          /\ frames' = Append(frames, [p |-> parsers[top.p].p1, start |-> top.start])
    /\ UNCHANGED <<parsers, parser, source, pc, iter, result, calls, candidates, request>>
    /\ UNCHANGED builder_vars
    /\ UNCHANGED history

\* RuleParser::parse_iter: fetch_parser_for_rule, then parser.parse_iter.
EnterRule ==
    /\ pc = "descend"
    /\ Len(frames) < MaxDepth
    /\ LET top == Last(frames)
       IN /\ parsers[top.p].kind = "rule"
          /\ frames' = Append(frames,
                              [p |-> fetch_parser_for_rule(context, parsers[top.p].rule_set_id,
                                                           parsers[top.p].index),
                               start |-> top.start])
    /\ UNCHANGED <<parsers, parser, source, pc, iter, context, result, calls, candidates,
                   request>>
    /\ UNCHANGED builder_vars
    /\ UNCHANGED history

\* The first call of the parse_iter of a wrapper, a sequence, an alternation
\* or a repeat.
EnterFirst ==
    /\ pc = "descend"
    /\ Len(frames) < MaxDepth
    /\ LET top == Last(frames)
       IN /\ parsers[top.p].kind \in {"dyn", "map", "string", "sequence", "either", "repeat"}
          /\ frames' = Append(frames, [p |-> parsers[top.p].p1, start |-> top.start])
    /\ UNCHANGED <<parsers, parser, source, pc, iter, context, result, calls, candidates,
                   request>>
    /\ UNCHANGED builder_vars
    /\ UNCHANGED history

\* The parse_iter of a leaf calls no parser: it is the first call to return.
ReturnLeaf ==
    /\ pc = "descend"
    /\ parsers[Last(frames).p].kind \in Leaves
    /\ pc' = "returned"
    /\ frames' = Pop(frames)
    /\ UNCHANGED <<parsers, parser, source, iter, context, result, calls, candidates,
                   request>>
    /\ UNCHANGED builder_vars
    /\ UNCHANGED history

DescentNext == EnterRuleSet \/ EnterRule \/ EnterFirst \/ ReturnLeaf

DescentSpec == DescentInit /\ [][DescentNext]_vars

\* ------------------------------------------------ definitions for the properties
Prefix(s, n) == SubSeq(s, 1, n)

Suffix(s, n) == SubSeq(s, n + 1, Len(s))

\* The foremost error of a log of reports: the first of those whose location
\* is the greatest.
ForemostOf(log) ==
    IF log = <<>> THEN None
    ELSE LET top == SetMax({log[i].location : i \in 1..Len(log)})
             first == SetMin({i \in 1..Len(log) : log[i].location = top})
         IN Some(log[first])

\* The texts a pattern denotes, read as a grammar, for the patterns without
\* regions and regexes.
RECURSIVE Accepts(_, _)
RECURSIVE AcceptsRepeat(_, _, _)
Accepts(p, text) ==
    LET P == Parsers[p] IN
    CASE P.kind = "empty" -> text = <<>>
      [] P.kind = "exact" -> text = P.s
      [] P.kind = "char" -> Len(text) = 1 /\ predicate(P.noun, text[1])
      [] P.kind = "sequence" ->
            \E i \in 0..Len(text) : Accepts(P.p1, Prefix(text, i)) /\ Accepts(P.p2, Suffix(text, i))
      [] P.kind = "either" -> Accepts(P.p1, text) \/ Accepts(P.p2, text)
      [] P.kind \in {"map", "string"} -> Accepts(P.p1, text)
      [] P.kind = "repeat" ->
            \E m \in 0..Len(text) :
                /\ P.min <= m
                /\ (P.max = None \/ m <= P.max[1])
                /\ AcceptsRepeat(p, text, m)

\* `text` is m matches of the pattern with a separator between them, and
\* one after the last when the separator is a terminator.
AcceptsRepeat(p, text, m) ==
    LET P == Parsers[p] IN
    IF m = 0 THEN text = <<>>
    ELSE \E i \in 0..Len(text) :
            /\ Accepts(P.p1, Prefix(text, i))
            /\ IF m = 1 /\ ~P.sep_is_terminator THEN i = Len(text)
               ELSE \E j \in i..Len(text) :
                       /\ Accepts(P.p2, SubSeq(text, i + 1, j))
                       /\ AcceptsRepeat(p, Suffix(text, j), m - 1)

\* C1: parse() ends with exactly one of a value and an error; a value is the
\* conversion of the first candidate, in backtracking order, that ends at
\* the end of the text, and when no candidate ends there the error is the
\* foremost error of the context.
C1_ParseValueOrForemostError ==
    pc = "done" =>
        /\ (Len(result.value) = 1) # (Len(result.error) = 1)
        /\ result.ok = (Len(result.value) = 1)
        /\ \A i \in 1..(Len(candidates) - 1) : candidates[i] # Len(source)
        /\ result.ok =>
              /\ candidates # <<>>
              /\ Last(candidates) = Len(source)
              /\ match_end(iter) = Len(source)
        /\ ~result.ok =>
              /\ \A i \in 1..Len(candidates) : candidates[i] # Len(source)
              /\ result.error = ForemostOf(context.log)

\* A parse that succeeds with its second or a later candidate.
C1_Witness ==
    /\ pc = "done"
    /\ result.ok
    /\ Len(candidates) >= 2

\* C2: in every context, the top one and every nested one, the foremost slot
\* holds the earliest-reported of the errors with the greatest location, and
\* the stored location never decreases.
C2_ForemostIsEarliestMaximal ==
    /\ [](/\ context.foremost_error = ForemostOf(context.log)
          /\ \A i \in 1..Len(context.closed) :
                context.closed[i].foremost_error = ForemostOf(context.closed[i].log))
    /\ [][\/ context.foremost_error = None
          \/ /\ context'.foremost_error # None
             /\ context'.foremost_error[1].location >= context.foremost_error[1].location]_vars

\* Two different errors were reported at the greatest location and the slot
\* holds the earlier one.
C2_Witness ==
    \E i, j \in 1..Len(context.log) :
        /\ i < j
        /\ context.log[i].location = context.log[j].location
        /\ context.log[i].kind # context.log[j].kind
        /\ context.foremost_error = Some(context.log[i])

\* The lines of the text: a line starts at 0 and after every newline, and
\* runs to the next newline or the end of the text.
LineStarts == {0} \cup {i \in 1..Len(source) : source[i] = "\n"}

LineEnd(st) ==
    SetMin({i \in st..Len(source) : i = Len(source) \/ source[i + 1] = "\n"})

LineText(st) == Slice(source, st, LineEnd(st))

DigitRun(text) == SetMax({n \in 0..Len(text) : \A i \in 1..n : IsAsciiDigit(text[i])})

OneRun(text) == SetMax({n \in 0..Len(text) : \A i \in 1..n : text[i] = "1"})

\* The end of the pattern's match at the start of a line's text, for the
\* patterns u64, digit and "1"*; -1 when the pattern does not match there.
LinePatternEnd(pattern, text) ==
    CASE pattern = "u64" -> IF DigitRun(text) = 0 THEN -1 ELSE DigitRun(text)
      [] pattern = "digit" -> IF DigitRun(text) = 0 THEN -1 ELSE 1
      [] pattern = "star_x1" -> OneRun(text)

\* The line at st is the first that the pattern does not match whole, and
\* the pattern matches its first c characters and no more.
PartialLineAt(pattern, st, c) ==
    /\ st \in LineStarts
    /\ st < Len(source)
    /\ \A t \in LineStarts : t < st => LinePatternEnd(pattern, LineText(t)) = Len(LineText(t))
    /\ c = LinePatternEnd(pattern, LineText(st))
    /\ c >= 0
    /\ c < Len(LineText(st))

LinesPattern(top) == Parsers[Parsers[top].p1].p1

LinesTops == {"lines_u64", "lines_digit", "lines_star_x1"}

\* An ExtraUnparsed at the end of every top-level candidate that ended early
\* has been offered to the top context, and it is the result only when no
\* error with an equal or greater location was reported before it.
ExtraUnparsedOffered ==
    /\ \A i \in 1..Len(candidates) :
          (candidates[i] # Len(source) /\ (i < Len(candidates) \/ pc = "done")) =>
              \E j \in 1..Len(context.log) :
                  context.log[j] = new_extra(source, candidates[i])
    /\ (pc = "done" /\ ~result.ok /\ result.error[1].kind = "ExtraUnparsed") =>
          LET k == SetMin({j \in 1..Len(context.log) : context.log[j] = result.error[1]})
          IN \A j \in 1..(k - 1) : context.log[j].location < result.error[1].location

EarlierLineMatches(top, t) ==
    CASE top = "lines_u64" -> LinePatternEnd("u64", LineText(t)) = Len(LineText(t))
      [] top = "sections_lines_u64" ->
            \/ LinePatternEnd("u64", LineText(t)) = Len(LineText(t))
            \/ LineText(t) = <<>> /\ t >= 2 /\ IsAsciiDigit(source[t - 1])
      [] top = "nl_section_lines_u64" ->
            IF t = 0 THEN LineText(t) = <<>>
            ELSE LinePatternEnd("u64", LineText(t)) = Len(LineText(t))

\* The line at st is the first that u64 does not match whole, u64 matches
\* its first c >= 1 characters, and every earlier line is well formed.
PartialU64LineAt(top, st, c) ==
    /\ st \in LineStarts
    /\ st < Len(source)
    /\ top = "nl_section_lines_u64" => st >= 1
    /\ \A t \in LineStarts : t < st => EarlierLineMatches(top, t)
    /\ c = DigitRun(LineText(st))
    /\ c >= 1
    /\ c < Len(LineText(st))

NestedTops == {"lines_u64", "sections_lines_u64", "nl_section_lines_u64"}

\* C5: the error of a nested context that failed reaches the parent at the
\* start of the slice plus its offset in the slice, and through a line in a
\* section the starts add: the error of the parse is at the offset of the
\* failure in the whole text.
C5_NestedErrorAtSourceOffset ==
    /\ \A i \in 1..Len(context.closed) :
          LET child == context.closed[i] IN
          ~child.ok =>
              /\ Last(child.parent_log).location =
                     child.start + child.foremost_error[1].location
              /\ Last(child.parent_log).kind = child.foremost_error[1].kind
    /\ \A st, c \in 0..Len(source) :
          (pc = "done" /\ parser \in NestedTops /\ PartialU64LineAt(parser, st, c)) =>
              result.error = Some(new_line_extra(source, st + c))

\* "\n" section(lines(u64)): the failing line starts after the start of its
\* section, which starts after the start of the text, and the error is at
\* the sum of the two starts and the offset in the line.
C5_Witness ==
    /\ pc = "done"
    /\ parser = "nl_section_lines_u64"
    /\ \E i, j \in 1..Len(context.closed) :
          LET ln == context.closed[i]
              sec == context.closed[j]
          IN /\ i < j
             /\ ~ln.ok /\ ~sec.ok
             /\ ln.start > 0 /\ sec.start > 0
             /\ ln.foremost_error[1].location > 0
             /\ result.error[1].kind = "LineExtra"
             /\ result.error[1].location =
                    sec.start + ln.start + ln.foremost_error[1].location

\* The iterators of the closure mappers in an iterator tree, as (parser,
\* start) pairs, children first: all of them, or those that conversion
\* reaches, which leaves out the separators of a repeat and what string()
\* wraps.
RECURSIVE MapInstances(_, _)
RECURSIVE MapInstancesOfAll(_, _)
MapInstancesOfAll(kids, all) ==
    IF kids = <<>> THEN <<>>
    ELSE MapInstances(Head(kids), all) \o MapInstancesOfAll(Tail(kids), all)

MapInstances(it, all) ==
    LET P == parsers[it.p]
        kids == it.head_iter \o it.tail_iter \o it.pattern_iters
                \o (IF all THEN it.sep_iters ELSE <<>>)
                \o (IF P.kind = "string" /\ ~all THEN <<>> ELSE it.iter)
        own == IF P.kind = "map" /\ IsClosure(P.mapper)
               THEN <<[p |-> it.p, start |-> it.start]>> ELSE <<>>
    IN MapInstancesOfAll(kids, all) \o own

Count(seq, x) == Cardinality({i \in 1..Len(seq) : seq[i] = x})

SameInstances(s, t) ==
    /\ Len(s) = Len(t)
    /\ \A i \in 1..Len(s) : Count(s, s[i]) = Count(t, s[i])

NoCallWhileMatching ==
    /\ context.calls = <<>>
    /\ (pc # "done" \/ ~result.ok) => calls = <<>>

\* C6 as stated: the mapper runs exactly once for each matched instance that
\* is part of the final match.
C6_OncePerMatchedInstance ==
    /\ NoCallWhileMatching
    /\ (pc = "done" /\ result.ok) =>
          SameInstances(calls, MapInstances(iter, TRUE))

\* C6 amended: the mapper never runs in parse_iter or backtrack, so not in
\* a parse that fails nor for a candidate that was backtracked away; when
\* the final match is converted it runs exactly once for each matched
\* instance that conversion reaches, and not at all for an instance inside
\* string() or in a separator of a repeat, which are never converted.
C6_OncePerConvertedInstance ==
    /\ NoCallWhileMatching
    /\ (pc = "done" /\ result.ok) =>
          SameInstances(calls, MapInstances(iter, FALSE))

\* {("1" => panic!()), "1a"} on "1a": the first branch matched "1", was
\* backtracked away, and its mapper did not run.
C6_Witness ==
    /\ pc = "done"
    /\ parser = "either_panic"
    /\ result.ok
    /\ candidates = <<1, 2>>
    /\ iter.side = "Right"
    /\ calls = <<>>

\* The side of the alternation in the current candidate.
SideOf(it) == IF parsers[it.p].kind = "either" THEN it.side ELSE it.head_iter[1].side

EitherTops == {"either_panic", "either_x1_x1a", "either_xa_star_x1"}

\* C7: the candidates of the first alternative come before those of the
\* second, and the result takes the second branch only if no candidate of
\* the first leads to an overall match; also inside a sequence.
C7_OrderedChoice ==
    /\ [](pc = "done" =>
            /\ parser \in EitherTops =>
                  /\ result.ok = (\/ Accepts(Parsers[parser].p1, source)
                                  \/ Accepts(Parsers[parser].p2, source))
                  /\ result.ok =>
                        result.value[1].side =
                            IF Accepts(Parsers[parser].p1, source) THEN "Left" ELSE "Right"
            /\ parser = "seq_either_xa" =>
                  /\ result.ok = (\/ Accepts("seq_x1_xa", source)
                                  \/ Accepts("seq_x1a_xa", source))
                  /\ result.ok =>
                        result.value[1].side =
                            IF Accepts("seq_x1_xa", source) THEN "Left" ELSE "Right")
    /\ [][(/\ parser \in EitherTops \cup {"seq_either_xa"}
           /\ pc = "matching" /\ pc' = "matching"
           /\ SideOf(iter) = "Right") => SideOf(iter') = "Right"]_vars

\* ({"1", "1a"} "a") on "1aa": the first branch gave a candidate that ended
\* early, and the result takes the second.
C7_Witness ==
    /\ pc = "done"
    /\ parser = "seq_either_xa"
    /\ result.ok
    /\ candidates = <<2, 3>>
    /\ result.value[1].side = "Right"

\* The prefixes that a star can take so that the rest of the parse succeeds.
StarFits(head, tail) ==
    {k \in 0..Len(source) :
        Accepts(head, Prefix(source, k)) /\ Accepts(tail, Suffix(source, k))}

StarSeqTops == {"seq_star_any_xa", "seq_star_x1_star_any"}

StrictlyDecreasing(seq) == \A i, j \in 1..Len(seq) : i < j => seq[i] > seq[j]

RECURSIVE ValidStops(_)
ValidStops(it) ==
    LET P == parsers[it.p]
        n == Len(it.pattern_iters) + Len(it.sep_iters)
        m == IF P.sep_is_terminator THEN n \div 2 ELSE (n + 1) \div 2
        kids == it.head_iter \o it.tail_iter \o it.pattern_iters \o it.sep_iters \o it.iter
    IN /\ P.kind = "repeat" =>
             /\ n = 0 \/ (IF P.sep_is_terminator THEN n % 2 = 0 ELSE n % 2 = 1)
             /\ P.min <= m
             /\ P.max # None => m <= P.max[1]
             /\ Len(it.pattern_iters) = m
             /\ Len(it.sep_iters) = IF P.sep_is_terminator \/ n = 0 THEN m ELSE m - 1
       /\ \A i \in 1..Len(kids) : ValidStops(kids[i])

\* C9: every candidate of a repeat iterator stops at a count n that is 0 or
\* has the parity of sep_is_terminator, with min <= patterns <= max.
C9_RepeatStopsAtValidCount == pc = "matching" => ValidStops(iter)

\* A terminated repeat stopped after two patterns, each with its separator.
C9_Witness ==
    /\ pc = "matching"
    /\ parsers[parser].kind = "repeat"
    /\ parsers[parser].sep_is_terminator
    /\ Len(iter.pattern_iters) = 2
    /\ Len(iter.sep_iters) = 2

CharRepeatTops ==
    {"repeat_any_0", "repeat_any_1", "repeat_any_2", "repeat_any_3",
     "repeat_digit_1_2", "repeat_digit_min_2", "repeat_digit_max_1"}

\* C10: a repeat of a one-character pattern with the empty separator accepts
\* a text iff all its characters match and their number is within
\* [min, max], and returns their values in order; so repeat_n(any_char, k)
\* accepts exactly the texts of k characters.
C10_BoundedCharRepeat ==
    (pc = "done" /\ parser \in CharRepeatTops) =>
        LET P == Parsers[parser]
            isDigit == P.p1 = "digit"
        IN /\ result.ok =
                 (/\ \A i \in 1..Len(source) : isDigit => IsAsciiDigit(source[i])
                  /\ P.min <= Len(source)
                  /\ P.max # None => Len(source) <= P.max[1])
           /\ result.ok =>
                 result.value[1] =
                     [i \in 1..Len(source) |->
                         IF isDigit THEN ToDigit(source[i]) ELSE source[i]]

\* repeat_min_max(digit, 1, 2) accepted two digits.
C10_Witness ==
    /\ pc = "done"
    /\ parser = "repeat_digit_1_2"
    /\ result.ok
    /\ Len(source) = 2
    /\ result.value[1] = <<1, 1>>

RepeatSepTops == {"repeat_sep_x1_xa", "repeat_sep_any_xa", "repeat_sep_x1_xa_g"}

\* The text is empty or p (sep p)* for the separator "a" and the pattern "1"
\* or any character.
SeparatedForm(text, pattern) ==
    \/ text = <<>>
    \/ /\ Len(text) % 2 = 1
       /\ \A i \in 1..Len(text) :
             IF i % 2 = 0 THEN text[i] = "a"
             ELSE pattern = "x1" => text[i] = "1"

\* C11: repeat_sep(p, sep) accepts exactly the empty text and the texts
\* p (sep p)*, and returns one element for each pattern match, in the order
\* of the text, and nothing for the separators.
C11_RepeatSepForm ==
    (pc = "done" /\ parser \in RepeatSepTops) =>
        LET pattern == Parsers[parser].p1 IN
        /\ result.ok = SeparatedForm(source, pattern)
        /\ result.ok =>
              result.value[1] =
                  [i \in 1..((Len(source) + 1) \div 2) |->
                      IF pattern = "any_char" THEN source[2 * i - 1] ELSE <<>>]

\* repeat_sep(any_char, "a") on three characters, the first and the last
\* different: two elements, in the order of the text.
C11_Witness ==
    /\ pc = "done"
    /\ parser = "repeat_sep_any_xa"
    /\ result.ok
    /\ Len(source) = 3
    /\ source[1] # source[3]
    /\ result.value[1] = <<source[1], source[3]>>

\* A parse is under way or over.
Parsing == pc \in {"start", "matching", "done"}

\* C12: a call that constructs a repetition with min > max panics, so it never
\* returns a parser, and no repeat parser that a parse uses has min > max.
C12_MinAboveMaxPanics ==
    /\ (request.f = "repeat_min_max" /\ request.min > request.max) =>
          /\ pc \in {"build", "panicked"}
          /\ parser \notin DOMAIN parsers
    /\ Parsing =>
          \A id \in DOMAIN parsers :
             (parsers[id].kind = "repeat" /\ parsers[id].max # None) =>
                parsers[id].min <= parsers[id].max[1]

\* repeat_min_max(digit, 2, 1) has panicked.
C12_Witness ==
    /\ pc = "panicked"
    /\ request = [f |-> "repeat_min_max", pattern |-> "digit", min |-> 2, max |-> 1]

\* The texts a pattern denotes, u64 and u8 included.
Denotes(p, text) ==
    IF Parsers[p].kind = "regex"
    THEN /\ text # <<>>
         /\ \A i \in 1..Len(text) : IsAsciiDigit(text[i])
         /\ Parsers[p].noun = "u8" => DecimalValue(text) <= 255
    ELSE Accepts(p, text)

\* No parser of the parse is a rule: each can be started in a context in
\* which no rule set is registered.
NoRules == \A id \in DOMAIN parsers : parsers[id].kind # "rule"

LineIds ==
    {id \in DOMAIN parsers : parsers[id].kind = "region" /\ parsers[id].noun = "Line"}

\* The offsets of the newlines at or after offset s.
NewlinesFrom(s) == {i \in s..(Len(source) - 1) : source[i + 1] = "\n"}

SectionIds ==
    {id \in DOMAIN parsers : parsers[id].kind = "region" /\ parsers[id].noun = "Section"}

\* Offset s is 0 or follows a newline.
AfterNewline(s) == s = 0 \/ source[s] = "\n"

\* C14 as stated: section(P) accepts the start s iff s is 0 or follows a
\* newline (any newline, so also the second of two); at every other offset
\* it fails with BadSectionStart at s and P is not run.
C14_SectionStartAfterAnyNewline ==
    /\ pc = "done" =>
          \A S \in SectionIds : \A s \in 0..Len(source) :
             LET r == parse_iter(S, new(source), s)
             IN (/\ ~r.ok
                 /\ r.ctx.log = <<new_bad_section_start(source, s)>>
                 /\ r.ctx.closed = <<>>) <=> ~AfterNewline(s)
    /\ \A i \in 1..Len(context.log) : \A s \in 0..Len(source) :
          context.log[i] = new_bad_section_start(source, s) => ~AfterNewline(s)

\* (line("1"*) section(lines(u64))) on "1\n1\n" fails with BadSectionStart at
\* offset 2, the start of the second line.
C14_RejectedAfterNewline ==
    /\ pc = "done"
    /\ parser = "seq_line_section"
    /\ source = <<"1", "\n", "1", "\n">>
    /\ result.error = Some(new_bad_section_start(source, 2))

\* The offsets at which section(P) passes check_at_start.
SectionStarts ==
    {s \in 0..Len(source) :
        \/ s = 0
        \/ s = 1 /\ source[1] = "\n"
        \/ s >= 2 /\ source[s - 1] = "\n" /\ source[s] = "\n"}

\* The offsets at or after s at which two newlines begin.
BlankLinesFrom(s) ==
    {i \in s..(Len(source) - 2) : source[i + 1] = "\n" /\ source[i + 2] = "\n"}

\* The texts that lines(u64) denotes: lines of digits, each nonempty, the
\* newline of the last one optional.
LinesU64(text) ==
    /\ \A i \in 1..Len(text) : IsAsciiDigit(text[i]) \/ text[i] = "\n"
    /\ \A i \in 1..Len(text) : text[i] = "\n" => (i > 1 /\ text[i - 1] # "\n")

\* C15: section(P) started at a valid start s gives P the slice source[s..i+1]
\* and has match_end i + 2 when the first "\n\n" at or after s is at i; without
\* one and with s < |source| the slice is source[s..] and match_end is
\* |source|; at s = |source| it fails with Expected("section").  So exactly one
\* blank line is consumed, and section(P) does not parse a text that goes on
\* after the blank line.
C15_SectionRegion ==
    /\ (pc = "start" /\ NoRules) =>
          \A S \in SectionIds : \A s \in SectionStarts :
             LET bl == BlankLinesFrom(s)
                 e == IF bl # {} THEN SetMin(bl) + 1 ELSE Len(source)
                 r == parse_iter(S, new(source), s)
             IN IF bl = {} /\ s = Len(source)
                THEN /\ ~r.ok
                     /\ r.ctx.log = <<new_expected(source, Len(source), <<"section">>)>>
                     /\ r.ctx.closed = <<>>
                ELSE /\ r.ctx.closed # <<>>
                     /\ Last(r.ctx.closed).start = s
                     /\ Last(r.ctx.closed).end = e
                     /\ r.ok = LinesU64(Slice(source, s, e))
                     /\ r.ok => match_end(r.it) = IF bl # {} THEN e + 1 ELSE Len(source)
    /\ (pc = "done" /\ parser = "section_lines_u64") =>
          LET bl == BlankLinesFrom(0)
              n == Len(source)
          IN result.ok = (/\ n > 0
                          /\ bl # {} => SetMin(bl) + 2 = n
                          /\ LinesU64(IF bl # {} THEN Prefix(source, n - 1) ELSE source))

\* section(lines(u64)) has parsed "1\n1\n\n": the slice ends before the blank
\* line.
C15_Witness ==
    /\ pc = "done"
    /\ parser = "section_lines_u64"
    /\ source = <<"1", "\n", "1", "\n", "\n">>
    /\ result.ok
    /\ Last(context.closed).end = 4

RegionIds == LineIds \cup SectionIds

\* C16: a line or section iterator has one candidate: its match_end is its
\* outer_end, and its backtrack fails, leaves the iterator as it is and
\* records nothing, also when the wrapped parser has further candidates that
\* match the whole interior; so a parser made of regions only gives parse()
\* at most one candidate.
C16_RegionSingleCandidate ==
    /\ (pc = "start" /\ NoRules) =>
          \A R \in RegionIds : \A s \in 0..Len(source) :
             LET r == parse_iter(R, new(source), s)
                 b == backtrack(r.it, r.ctx)
             IN r.ok => /\ match_end(r.it) = r.it.end
                        /\ ~b.ok
                        /\ b.it = r.it
                        /\ b.ctx = r.ctx
    /\ parser \in LineTops \cup SectionTops => Len(candidates) <= 1
    /\ (pc = "done" /\ ~result.ok /\ parser \in RegionIds /\ candidates # <<>>) =>
          /\ iter.p = parser
          /\ match_end(iter) = candidates[1]
          /\ Last(context.log) = new_extra(source, candidates[1])

\* line("1"* any_char*) has matched the line "11" of "11\n1" and its
\* backtrack has failed, while the iterator of ("1"* any_char*) that it holds
\* has a next candidate that matches the whole line too.
C16_Witness ==
    /\ pc = "done"
    /\ parser = "line_seq_stars"
    /\ source = <<"1", "1", "\n", "1">>
    /\ LET b == backtrack(iter.iter[1], new(<<"1", "1">>))
       IN b.ok /\ match_end(b.it) = 2
    /\ candidates = <<3>>
    /\ ~result.ok
    /\ iter.p = "line_seq_stars"

\* The tops that are a star of a region.
StarRegionTops == LinesTops \cup {"sections_lines_u64"}

Matched(records) == {i \in 1..Len(records) : records[i].ok}

RegionsAdvance ==
    /\ (pc = "start" /\ NoRules) =>
          \A R \in RegionIds : \A s \in 0..Len(source) :
             LET r == parse_iter(R, new(source), s)
             IN r.ok => match_end(r.it) > s
    /\ (pc = "matching" /\ parser \in StarRegionTops) =>
          /\ Len(iter.pattern_iters) <= Len(source)
          /\ \A i \in 1..Len(iter.pattern_iters) :
                /\ iter.pattern_iters[i].end > iter.pattern_iters[i].start
                /\ i > 1 => iter.pattern_iters[i].start = iter.pattern_iters[i - 1].end
    /\ parser \in LinesTops => Cardinality(Matched(context.closed)) <= Len(source)
    /\ (pc = "done" /\ parser \in StarRegionTops /\ source = <<>>) =>
          /\ result.ok
          /\ result.value = Some(<<>>)
          /\ context.closed = <<>>

\* What is left of a parse: the turns of the loop of parse() that the end of
\* its candidate allows, and none when it is over.
Rank ==
    CASE pc = "start" -> Len(source) + 2
      [] pc = "matching" -> match_end(iter) + 1
      [] OTHER -> 0

RankDecreases == parser \in StarRegionTops => Rank' < Rank

\* C17: lines(P) and sections(P) parse the empty text to the empty list; every
\* line or section that matches ends after its start, so a star of regions
\* holds, and lines(P) creates, at most |source| region iterators; and the
\* parse terminates: each step of it leaves strictly less to do.
C17_RegionsTerminate ==
    /\ []RegionsAdvance
    /\ [][RankDecreases]_vars

\* lines("1"*) has matched three empty lines in a text of three newlines.
C17_Witness ==
    /\ pc = "done"
    /\ parser = "lines_star_x1"
    /\ source = <<"\n", "\n", "\n">>
    /\ result.ok
    /\ Len(iter.pattern_iters) = 3
    /\ Cardinality(Matched(context.closed)) = 3

\* The texts of the lines of the source, each ended by a newline.
RECURSIVE LineTexts(_)
LineTexts(st) ==
    IF st >= Len(source) THEN <<>>
    ELSE <<LineText(st)>> \o LineTexts(LineEnd(st) + 1)

\* C18: string(P) converts to the text that P's candidate covers when the
\* parse ends, in the source of the context it was started in: the whole
\* text for string(any_char+) on a non-empty text and for string(alpha+) on
\* letters, the text between "1" and the last "a" for
\* ("1" string(any_char+) "a"), and each line without its newline for
\* lines(string(any_char+)).
C18_StringIsMatchedText ==
    (pc = "done" /\ parser \in StringTops) =>
        LET n == Len(source) IN
        CASE parser = "string_plus_any" ->
                /\ result.ok = (n > 0)
                /\ result.ok => result.value = Some(source)
          [] parser = "string_plus_alpha" ->
                /\ result.ok = (n > 0 /\ \A i \in 1..n : IsAlphabetic(source[i]))
                /\ result.ok => result.value = Some(source)
          [] parser = "seq_x1_string_xa" ->
                /\ result.ok = (n >= 3 /\ source[1] = "1" /\ source[n] = "a")
                /\ result.ok => result.value = Some(SubSeq(source, 2, n - 1))
          [] parser = "lines_string" ->
                /\ result.ok = (\A st \in LineStarts : st < n => LineText(st) # <<>>)
                /\ result.ok => result.value = Some(LineTexts(0))

\* ("1" string(any_char+) "a") has parsed "11aa": any_char+ first took the
\* three characters after the "1", and the string is the two of its last
\* candidate.
C18_Witness ==
    /\ pc = "done"
    /\ parser = "seq_x1_string_xa"
    /\ source = <<"1", "1", "a", "a">>
    /\ result.value = Some(<<"1", "a">>)

\* C19 as stated: an assignment that returns was of a rule that the same
\* builder created, in the order of declaration, so slot j of each builder
\* holds the parser assigned to its j-th declared rule.
C19_AssignOwnRulesInOrder ==
    /\ \A i \in 1..Len(assigned) : assigned[i].rule.by = assigned[i].to
    /\ \A b \in Builders : \A j \in 1..Len(builders[b].rule_parsers) :
          \E i \in 1..Len(assigned) :
             /\ assigned[i] = [to |-> b,
                               rule |-> [rule_set_id |-> builders[b].id, index |-> j - 1,
                                         by |-> b],
                               parser |-> builders[b].rule_parsers[j]]

\* A builder holds a parser that was assigned for a rule of a builder that
\* was dropped before.
C19_ForeignRuleAssigned ==
    \E i \in 1..Len(assigned) :
       /\ assigned[i].rule.by # assigned[i].to
       /\ builders[assigned[i].rule.by].state = "dropped"
       /\ builders[assigned[i].to].rule_parsers # <<>>

\* The value of test_rule_set for "[3,[7,88]]".
Value_Int(n) == [f |-> "Int", arg |-> n]

Value_List(vs) == [f |-> "List", arg |-> vs]

NestedList == Value_List(<<Value_Int(3), Value_List(<<Value_Int(7), Value_Int(88)>>)>>)

\* The candidates of an iterator from its current one on, each with its
\* match_end and its converted value, and the context when backtrack fails.
RECURSIVE Candidates(_, _)
Candidates(it, ctx) ==
    LET b == backtrack(it, ctx)
        here == <<[end |-> match_end(it), raw |-> convert(it).raw]>>
    IN IF b.ok
       THEN [Candidates(b.it, b.ctx) EXCEPT !.list = here \o @]
       ELSE [list |-> here, ctx |-> b.ctx]

\* All that a parser started at s does: its candidates, none when it fails,
\* and the context it leaves.
Run(p, ctx, s) ==
    LET r == parse_iter(p, ctx, s)
    IN IF r.ok THEN Candidates(r.it, r.ctx) ELSE [list |-> <<>>, ctx |-> r.ctx]

RuleIds == {id \in DOMAIN parsers : parsers[id].kind = "rule"}

\* The parser that was assigned to a rule of a rule set: slot index holds
\* DynParser::new of it, which wraps single_value of it.
AssignedParser(set, index) == Parsers[Parsers[Parsers[set].rule_parsers[index + 1]].p1].p1

\* The texts of the grammar value = digits | "[]" | "[" values "]",
\* values = empty | value ("," value)*.
RECURSIVE IsValue(_)
RECURSIVE IsValues(_)
IsValue(text) ==
    \/ text # <<>> /\ \A i \in 1..Len(text) : IsAsciiDigit(text[i])
    \/ /\ Len(text) >= 2
       /\ text[1] = "["
       /\ text[Len(text)] = "]"
       /\ LET inner == SubSeq(text, 2, Len(text) - 1)
          IN inner = <<>> \/ IsValues(inner)

IsValues(text) ==
    \/ IsValue(text)
    \/ \E i \in 2..(Len(text) - 1) :
          /\ text[i] = ","
          /\ IsValue(Prefix(text, i - 1))
          /\ IsValues(Suffix(text, i))

\* C20: with its rule set registered, a rule reference started at s does what
\* the parser assigned to the rule does when started at s: it fails or
\* matches alike, with the same match_end for each candidate in turn and the
\* same errors reported, and each candidate converts to the 1-tuple of that
\* parser's output; also for rules that refer to themselves and each other,
\* so that the rule set of values accepts exactly the nested lists.
C20_RuleActsAsAssigned ==
    /\ (pc = "start" /\ parser \in RuleTops) =>
          LET ctx == register_rule_set(new(source), parsers[parser].rule_set_id,
                                       parsers[parser].rule_parsers)
          IN \A R \in RuleIds : \A s \in 0..Len(source) :
                LET a == Run(R, ctx, s)
                    b == Run(AssignedParser(parser, parsers[R].index), ctx, s)
                IN /\ Len(a.list) = Len(b.list)
                   /\ \A k \in 1..Len(a.list) :
                         /\ a.list[k].end = b.list[k].end
                         /\ a.list[k].raw = <<into_user_type(b.list[k].raw)>>
                   /\ a.ctx.log = b.ctx.log
                   /\ a.ctx.foremost_error = b.ctx.foremost_error
    /\ (pc = "done" /\ parser = "value_parser") => result.ok = IsValue(source)

C20_Witness ==
    /\ pc = "done"
    /\ parser = "value_parser"
    /\ Len(source) = 10
    /\ result.ok
    /\ result.value = Some(NestedList)

\* ---------------------------------------------------------------------- C21
\* The rule set parsers among the parsers built, and the rule list that the
\* one with a given id holds.
RuleSetIds == {id \in DOMAIN parsers : parsers[id].kind = "rule_set"}

RuleListOf(rule_set_id) ==
    Parsers[CHOOSE id \in RuleSetIds : Parsers[id].rule_set_id = rule_set_id].rule_parsers

\* rule_sets `after` holds what `before` held, unchanged.
Retains(after, before) ==
    \A id \in DOMAIN before : id \in DOMAIN after /\ after[id] = before[id]

\* C21: every rule lookup of a parse, in the top-level context or in a
\* context nested in lines and sections to any depth, finds the rule list of
\* its rule set, which the rule set parser registered before its entry
\* parser started; and when with_slice returns, with Ok or with Err, its
\* context holds every rule set it held before and every one that the nested
\* context held, those registered inside the slice among them.
C21_RegistryShared ==
    /\ \A i \in 1..Len(context.fetched) :
          LET f == context.fetched[i]
          IN /\ f.registered
             /\ f.found = RuleListOf(f.rule_set_id)[f.index + 1]
    /\ \A i \in 1..Len(context.closed) :
          LET c == context.closed[i]
          IN /\ Retains(c.parent_rule_sets, c.parent_rule_sets_before)
             /\ Retains(c.parent_rule_sets, c.rule_sets)
             /\ Retains(c.rule_sets, c.parent_rule_sets_before)

\* A lookup two contexts deep has found its rule set, and a failed slice has
\* left to its context a rule set that was registered inside it, next to the
\* one held before.
C21_Witness ==
    /\ parser = "outer_parser"
    /\ pc = "done"
    /\ \E i \in 1..Len(context.fetched) :
          context.fetched[i].depth = 2 /\ context.fetched[i].registered
    /\ \E i \in 1..Len(context.closed) :
          LET c == context.closed[i]
          IN /\ ~c.ok
             /\ DOMAIN c.parent_rule_sets_before = {2}
             /\ DOMAIN c.parent_rule_sets = {2, 3}

\* ---------------------------------------------------------------------- C22
\* A call of parse_iter is active under a call of parse_iter of the same
\* parser at the same start.  No call has returned by then, so the inner
\* call meets the context and the text that the outer one met and makes the
\* same calls in turn: the chain has no end.
Reentered ==
    \E i \in 1..Len(frames) : \E j \in (i + 1)..Len(frames) : frames[i] = frames[j]

\* C22: parse_iter on a rule that can enter itself at its own start without
\* consuming input, such as a = a "x" | "y", returns after finitely many
\* steps on every text: its chain of calls never comes back to the same rule
\* at the same start.
C22_LeftRecursionReturns == ~Reentered

\* The rule a = a "x" | "y" is entered at offset 0 of "y" under itself, and
\* the chain of calls goes on to the depth that is followed.
C22_LeftRecursionReenters ==
    /\ parser = "left_parser"
    /\ source = <<"y">>
    /\ pc = "descend"
    /\ Reentered
    /\ Len(frames) = MaxDepth
    /\ frames[1].start = 0

\* ------------------------------------------------------------------- C23
\* The value a signed run of digits denotes in the radix, by arithmetic.
RECURSIVE RadixValue(_, _)
RadixValue(text, radix) ==
    IF text = <<>> THEN 0
    ELSE IF text[1] = "-" THEN 0 - RadixValue(Tail(text), radix)
    ELSE IF text[1] = "+" THEN RadixValue(Tail(text), radix)
    ELSE radix * RadixValue(SubSeq(text, 1, Len(text) - 1), radix)
         + ToDigit(text[Len(text)])

\* The whole text is one run of the parser's regex.
IsWholeRun(p, text) == regex_find(p, text) = Some(Len(text))

NarrowTops == {"u8", "i8", "u8_hex", "i8_hex", "u8_bin", "i8_bin"}

FromStrFailedWhole ==
    /\ ~result.ok
    /\ candidates = <<>>
    /\ result.error = Some(ParseError("FromStrFailed", 0, Len(source),
                                      <<parsers[parser].noun>>))

InLanguage(p, t) ==
    LET signed == parsers[p].noun \in {"i8", "i32"}
        digits == IF signed /\ t # <<>> /\ t[1] \in {"+", "-"} THEN Tail(t) ELSE t
        class == CASE parsers[p].radix = 2 -> {"0", "1"}
                   [] parsers[p].radix = 10 -> {"0", "1", "2", "3", "4", "5", "6", "7", "8", "9"}
                   [] OTHER -> {"0", "1", "2", "3", "4", "5", "6", "7", "8", "9",
                                "a", "b", "c", "d", "e", "f", "A", "B", "C", "D", "E", "F"}
    IN IF parsers[p].noun = "bool"
       THEN t \in {<<"t", "r", "u", "e">>, <<"f", "a", "l", "s", "e">>}
       ELSE digits # <<>> /\ \A i \in 1..Len(digits) : digits[i] \in class

RegexIds == {p \in DOMAIN parsers : parsers[p].kind = "regex"}

\* The ends of the texts of the regex that start at s.
EndsFrom(p, s) == {e \in s..Len(source) : InLanguage(p, Slice(source, s, e))}

\* C24: a regex parser started at s matches only a text of its regex that
\* begins at s, and only the longest one; when its parse function refuses the
\* longest it fails over that run and tries no shorter one; its one candidate
\* cannot be backtracked.  So the sequence of two i32_hex does not match 12,
\* bool does not match " true", and a top-level regex parser offers at most
\* one candidate.
C24_OneAnchoredCandidate ==
    pc = "done" =>
        /\ \A p \in RegexIds : \A s \in 0..Len(source) :
              LET r == RegexParser_parse_iter(p, new(source), s)
                  ends == EndsFrom(p, s)
              IN /\ r.ok => /\ ends # {}
                            /\ r.it.start = s
                            /\ match_end(r.it) = SetMax(ends)
                            /\ ~backtrack(r.it, r.ctx).ok
                 /\ ends = {} => /\ ~r.ok
                                 /\ into_reported_error(r.ctx)
                                      = ParseError("Expected", s, s, <<parsers[p].noun>>)
                 /\ (~r.ok /\ ends # {}) =>
                       into_reported_error(r.ctx)
                         = ParseError("FromStrFailed", s, SetMax(ends), <<parsers[p].noun>>)
        /\ parser \in RegexIds => Len(candidates) <= 1
        /\ (parser = "seq_i32_hex_i32_hex" /\ source = <<"1", "2">>) => ~result.ok
        /\ (parser = "bool" /\ source = <<" ", "t", "r", "u", "e">>) => ~result.ok
        /\ parser = "seq_xa_u8" =>
              (result.ok <=> /\ source # <<>>
                             /\ source[1] = "a"
                             /\ InLanguage("u8", Tail(source))
                             /\ RadixValue(Tail(source), 10) <= 255)
        /\ parser = "seq_u8_xa" =>
              (result.ok <=> /\ source # <<>>
                             /\ source[Len(source)] = "a"
                             /\ InLanguage("u8", Slice(source, 0, Len(source) - 1))
                             /\ RadixValue(Slice(source, 0, Len(source) - 1), 10) <= 255)

\* The sequence of two i32_hex has refused "12": the first took both digits
\* and the second found none at the end.
C24_Witness ==
    /\ pc = "done"
    /\ parser = "seq_i32_hex_i32_hex"
    /\ source = <<"1", "2">>
    /\ ~result.ok
    /\ result.error = Some(ParseError("Expected", 2, 2, <<"i32">>))

\* ------------------------------------------------------------------- C25
\* The characters of a text, decoded one after another from its bytes.
RECURSIVE CharsOf(_)
CharsOf(bytes) ==
    IF bytes = <<>> THEN <<>>
    ELSE LET width == IF bytes[1] = "F0" THEN 4 ELSE 1
         IN <<IF width = 1 THEN bytes[1]
              ELSE CHOOSE c \in {"U+1F602", "U+1F603", "U+1F30D"} :
                       Utf8(c) = SubSeq(bytes, 1, 4)>>
            \o CharsOf(SubSeq(bytes, width + 1, Len(bytes)))

\* The number of characters of `options` before the first c.
CharIndex(options, c) == SetMin({i \in 1..Len(options) : options[i] = c}) - 1

\* C25: char_of(options) matches at s exactly when the character at s is one
\* of the characters of options; it then ends after the whole encoding of that
\* character and yields the number of characters of options before its first
\* occurrence; otherwise, and at the end of the text, it fails with Expected
\* at s.
C25_CharOf ==
    (pc = "done" /\ parser \in CharOfTops) =>
        LET options == parsers[parser].s
            chars == CharsOf(source)
            r == CharOfParser_parse_iter(parser, new(source), 0)
        IN /\ r.ok <=> (chars # <<>> /\ \E i \in 1..Len(options) : options[i] = chars[1])
           /\ r.ok => /\ match_end(r.it) = Len(Utf8(chars[1]))
                      /\ convert(r.it).raw = <<CharIndex(options, chars[1])>>
           /\ ~r.ok => into_reported_error(r.ctx)
                         = ParseError("Expected", 0, 0, <<"one of">> \o options)
           /\ result.ok <=> (Len(chars) = 1 /\ r.ok)
           /\ result.ok => result.value = Some(CharIndex(options, chars[1]))
           /\ (~result.ok /\ r.ok) =>
                 result.error = Some(ParseError("ExtraUnparsed", match_end(r.it),
                                                match_end(r.it), <<>>))
           /\ (~result.ok /\ ~r.ok) => result.error = Some(into_reported_error(r.ctx))

\* char_of of the three faces has matched the third, four bytes long, and
\* yielded 2.
C25_Witness ==
    /\ pc = "done"
    /\ parser = "char_of_faces"
    /\ source = <<"F0", "9F", "8C", "8D">>
    /\ result = [ok |-> TRUE, value |-> Some(2), error |-> None]

\* ------------------------------------------------------------------- C26
\* The byte offsets of the newlines before loc.
NewlinesBefore(loc) == {i \in 0..(loc - 1) : source[i + 1] = "\n"}

\* The byte offset at which the line of loc begins.
LineStartOf(loc) ==
    IF NewlinesBefore(loc) = {} THEN 0 ELSE SetMax(NewlinesBefore(loc)) + 1

\* C26: the message of the error a parse returns names the line 1 + the
\* number of newlines before the error's byte offset, and the column 1 + the
\* number of characters, not bytes, from the start of that line to the
\* offset; the extra text after the match of char_of("DCBA") on "DC" is at
\* line 1 column 2.
C26_LineAndColumn ==
    (pc = "done" /\ ~result.ok) =>
        LET loc == result.error[1].location
            at == line_col(source, 0, loc, 1, 1)
        IN /\ at.line = 1 + Cardinality(NewlinesBefore(loc))
           /\ at.column = 1 + Len(CharsOf(Slice(source, LineStartOf(loc), loc)))
           /\ (parser = "char_of_DCBA" /\ source = <<"D", "C">>) =>
                 /\ result.error[1].kind = "ExtraUnparsed"
                 /\ at = [line |-> 1, column |-> 2]

\* On a newline, a face and an L, the parser of two characters and one of
\* DCBA has failed at byte offset 5, which is line 2 column 2.
C26_Witness ==
    /\ pc = "done"
    /\ parser = "seq_any_any_DCBA"
    /\ source = <<"\n", "F0", "9F", "98", "82", "L">>
    /\ ~result.ok
    /\ result.error[1].location = 5
    /\ line_col(source, 0, 5, 1, 1) = [line |-> 2, column |-> 2]

OptPattern(p) == parsers[parsers[p].p1].p1

\* C28: opt(P) on the empty text succeeds, with None when P does not match
\* the empty text; its candidates are those of P, in P's order, and then the
\* empty match; "x=" opt(i32) gives Some(123) on "x=123" and None on "x=".
C28_Optional ==
    (pc = "done" /\ parser \in OptTops) =>
        /\ source = <<>> =>
              /\ parser # "seq_x_eq_opt_i32" => result.ok
              /\ (/\ parser # "seq_x_eq_opt_i32"
                  /\ ~parse_iter(OptPattern(parser), new(source), 0).ok)
                    => result.value = Some(None)
        /\ parser \in {"opt_i32", "opt_star_x1"} =>
              LET own == Run(OptPattern(parser), new(source), 0).list
                  all == Run(parser, new(source), 0).list
              IN /\ Len(all) = Len(own) + 1
                 /\ \A i \in 1..Len(own) :
                       /\ all[i].end = own[i].end
                       /\ all[i].raw = <<Some(into_user_type(own[i].raw))>>
                 /\ all[Len(all)] = [end |-> 0, raw |-> <<None>>]
                 /\ \A i \in 1..Len(candidates) : candidates[i] = all[i].end
        /\ (parser = "seq_x_eq_opt_i32" /\ source = <<"x", "=", "1", "2", "3">>)
              => result = [ok |-> TRUE, value |-> Some(Some(123)), error |-> None]
        /\ (parser = "seq_x_eq_opt_i32" /\ source = <<"x", "=">>)
              => result = [ok |-> TRUE, value |-> Some(None), error |-> None]

\* "x=" opt(i32) has matched "x=" with the empty match of opt, after i32
\* found no number at 2.
C28_Witness ==
    /\ pc = "done"
    /\ parser = "seq_x_eq_opt_i32"
    /\ source = <<"x", "=">>
    /\ result.ok
    /\ result.value = Some(None)
    /\ context.foremost_error = Some(ParseError("Expected", 2, 2, <<"i32">>))

\* ------------------------------------------------------------------- C29
\* The error lies in a text of the length: 0 <= location <= end <= length.
InBounds(err, length) ==
    /\ 0 <= err.location
    /\ err.location <= err.end
    /\ err.end <= length

\* The error that the exit of a failed slice offered to the parent context.
Offered(c) == c.parent_log[Len(c.parent_log)]

\* C29: every error recorded in the context of the parse or in the context
\* of a slice lies in the source of that context, with location <= end; the
\* error that a failed slice offers to its parent is the child's foremost
\* error moved by the slice's start, and lies between the slice's start and
\* the end of the parent's source.
C29_ErrorsInBounds ==
    /\ context.source = source
    /\ \A i \in DOMAIN context.log : InBounds(context.log[i], Len(source))
    /\ \A i \in DOMAIN context.closed :
          LET c == context.closed[i]
          IN /\ c.start <= c.end
             /\ c.end <= c.parent_len
             /\ \A j \in DOMAIN c.log : InBounds(c.log[j], c.end - c.start)
             /\ ~c.ok =>
                   /\ Len(c.parent_log) = Len(c.parent_log_before) + 1
                   /\ Offered(c).location = c.foremost_error[1].location + c.start
                   /\ c.start <= Offered(c).location
                   /\ InBounds(Offered(c), c.parent_len)
    /\ (pc = "done" /\ ~result.ok) => InBounds(result.error[1], Len(source))

\* In lines(u8) a second line, which begins at offset 2, has failed with
\* FromStrFailed over its four digits; the parent was offered the error over
\* [2, 6).
C29_Witness ==
    /\ pc = "done"
    /\ parser = "lines_u8"
    /\ source = <<"1", "\n", "1", "1", "1", "1">>
    /\ \E i \in DOMAIN context.closed :
          LET c == context.closed[i]
          IN /\ ~c.ok
             /\ c.start = 2
             /\ c.foremost_error = Some(ParseError("FromStrFailed", 0, 4, <<"u8">>))
             /\ Offered(c) = ParseError("FromStrFailed", 2, 6, <<"u8">>)

\* ------------------------------------------------------------------- C30
SequenceIds == {p \in DOMAIN parsers : parsers[p].kind = "sequence"}

\* The offsets at which a parser is started: any, in a text of one-byte
\* characters; the start, in a text with longer ones.
StartsOf(text) ==
    IF \E i \in DOMAIN text : text[i] = "F0" THEN {0} ELSE 0..Len(text)

\* One head candidate with each of the tail's candidates, in the tail's order.
WithTails(p, h, tails) ==
    [i \in 1..Len(tails) |->
        [end |-> tails[i].end,
         raw |-> IF parsers[p].op = "Concat" THEN h.raw \o tails[i].raw
                 ELSE <<into_user_type(h.raw), into_user_type(tails[i].raw)>>]]

\* For each head candidate in order, the candidates of the tail started at
\* its end; none for a head candidate at whose end the tail does not start.
RECURSIVE HeadsThenTails(_, _)
HeadsThenTails(p, heads) ==
    IF heads = <<>> THEN <<>>
    ELSE WithTails(p, heads[1], Run(parsers[p].p2, new(source), heads[1].end).list)
         \o HeadsThenTails(p, Tail(heads))

\* The sequence at the top backtracks its tail and leaves its head alone; or
\* its tail has no more candidates, its head moves on and its tail starts at
\* the new end of the head.
SequenceTurn ==
    (pc = "matching" /\ pc' = "matching" /\ parsers[parser].kind = "sequence") =>
        IF backtrack(iter.tail_iter[1], context).ok
        THEN /\ iter'.head_iter = iter.head_iter
             /\ iter'.tail_iter[1] = backtrack(iter.tail_iter[1], context).it
        ELSE /\ backtrack(iter.head_iter[1], context).ok
             /\ iter'.head_iter # iter.head_iter
             /\ iter'.tail_iter[1].start = match_end(iter'.head_iter[1])

\* C30: the candidates of sequence(head, tail) started at s are, for each
\* candidate of head in head's order, the candidates of tail started at its
\* end in tail's order, with none for a head candidate at whose end tail does
\* not start; so a backtrack moves the tail while it can, then the head, and
\* fails when the head has no candidate left at whose end the tail starts.
C30_SequenceOrder ==
    /\ [](pc = "done" /\ DOMAIN context.rule_sets = {} =>
            \A p \in SequenceIds : \A s \in StartsOf(source) :
                Run(p, new(source), s).list
                  = HeadsThenTails(p, Run(parsers[p].p1, new(source), s).list))
    /\ [][SequenceTurn]_vars

\* any_char* "a" has matched "1aa": the star first took all three
\* characters, and gave one back for the "a".
C30_Witness ==
    /\ pc = "done"
    /\ parser = "seq_star_any_xa"
    /\ source = <<"1", "a", "a">>
    /\ result.ok
    /\ candidates = <<3>>
    /\ match_end(iter.head_iter[1]) = 2
    /\ Len(Run("star_any", new(source), 0).list) = 4

\* ---------------------------------------------------------------------- C31
RepeatIds == {id \in DOMAIN parsers : parsers[id].kind = "repeat"}

\* The context in which the parsers of the parse can be started on their
\* own: one with the rule set of the parse registered.
Registered ==
    IF parsers[parser].kind = "rule_set"
    THEN register_rule_set(new(source), parsers[parser].rule_set_id,
                           parsers[parser].rule_parsers)
    ELSE new(source)

\* The parse is one whose parsers can be started in Registered: a rule set
\* without regions, or no rules at all.
Startable == NoRules \/ parser \in RuleTops

\* The pattern can match the empty text.
RECURSIVE Nullable(_)
Nullable(p) ==
    LET P == parsers[p] IN
    CASE P.kind = "empty" -> TRUE
      [] P.kind = "exact" -> P.s = <<>>
      [] P.kind \in {"char", "char_of", "regex", "region"} -> FALSE
      [] P.kind = "sequence" -> Nullable(P.p1) /\ Nullable(P.p2)
      [] P.kind = "either" -> Nullable(P.p1) \/ Nullable(P.p2)
      [] P.kind \in {"map", "string", "dyn", "rule_set"} -> Nullable(P.p1)
      [] P.kind = "repeat" -> P.min = 0 \/ Nullable(P.p1)
      [] P.kind = "rule" ->
            Nullable(RuleListOf(P.rule_set_id)[P.index + 1])

\* Every match of the pattern followed by one of the separator takes at
\* least one byte.
Consuming(p) == ~(Nullable(parsers[p].p1) /\ Nullable(parsers[p].p2))

\* The tree of the stacks of a repeat: a node is n child matches that end at
\* e, its children are the node extended by each candidate, in order, of the
\* parser that is next, started at e.  PostOrder lists, from the i-th child
\* of the node on, the subtrees and then the node itself, keeping the nodes
\* at which the repeat may stop; `values` is the pattern values of the node.
RECURSIVE PostOrder(_, _, _, _, _, _)
PostOrder(p, ctx, n, e, values, i) ==
    LET P == parsers[p]
        cands == Run(IF n % 2 = 0 THEN P.p1 ELSE P.p2, ctx, e).list
    IN IF i > Len(cands)
       THEN IF check_repeat_count(P, n) THEN <<[end |-> e, raw |-> <<values>>]>> ELSE <<>>
       ELSE PostOrder(p, ctx, n + 1, cands[i].end,
                      IF n % 2 = 0 THEN Append(values, into_user_type(cands[i].raw))
                      ELSE values, 1)
            \o PostOrder(p, ctx, n, e, values, i + 1)

\* Pattern and separator have at most one candidate wherever they start.
SingleCandidates(p, ctx) ==
    \A e \in 0..Len(source) :
       /\ Len(Run(parsers[p].p1, ctx, e).list) <= 1
       /\ Len(Run(parsers[p].p2, ctx, e).list) <= 1

\* C31: the candidates of a repeat iterator, from parse_iter to the Err of
\* backtrack, are the stacks of child matches at which the repeat may stop,
\* in post-order: a stack comes after every stack that extends it, and the
\* extensions by an earlier candidate of a child come before those by a later
\* one; so the Err comes only after the stack with no child, which is the last
\* candidate when min = 0.  When pattern and separator have one candidate
\* each, the candidates have strictly decreasing numbers of pattern matches.
C31_RepeatPostOrder ==
    (pc = "start" /\ Startable) =>
        \A p \in RepeatIds : \A s \in 0..Len(source) :
           Consuming(p) =>
              LET list == Run(p, Registered, s).list
              IN /\ list = PostOrder(p, Registered, 0, s, <<>>, 1)
                 /\ parsers[p].min = 0 =>
                        /\ list # <<>>
                        /\ Last(list) = [end |-> s, raw |-> <<<<>>>>]
                 /\ SingleCandidates(p, Registered) =>
                        \A i, j \in 1..Len(list) :
                           i < j => Len(list[i].raw[1]) > Len(list[j].raw[1])

\* {"1", "1a"}* on 1a1: the first candidate is the stack of "1" alone, and
\* the backtrack of it has moved the pattern on top to "1a" and extended that
\* by the "1" that follows.
C31_Witness ==
    /\ pc = "matching"
    /\ parser = "star_either_x1_x1a"
    /\ source = <<"1", "a", "1">>
    /\ candidates = <<1, 3>>
    /\ Len(iter.pattern_iters) = 2
    /\ iter.pattern_iters[1].side = "Right"
    /\ Run(parser, new(source), 0).list =
          <<[end |-> 1, raw |-> <<<<[side |-> "Left", value |-> <<>>]>>>>],
            [end |-> 3, raw |-> <<<<[side |-> "Right", value |-> <<>>],
                                    [side |-> "Left", value |-> <<>>]>>>>],
            [end |-> 2, raw |-> <<<<[side |-> "Right", value |-> <<>>]>>>>],
            [end |-> 0, raw |-> <<<<>>>>]>>

\* ---------------------------------------------------------------------- C32
\* C32: line(P) and section(P) start P at offset 0 of the slice and go
\* through its candidates in order: each candidate that ends before the end
\* of the slice gets a LineExtra or SectionExtra at its end and is
\* backtracked; the first candidate that ends at the end of the slice is the
\* one the region keeps, and the region fails when no candidate ends there.
C32_RegionTriesCandidatesInOrder ==
    (pc = "start" /\ Startable) =>
        \A R \in RegionIds : \A s \in 0..Len(source) :
           LET r == parse_iter(R, Registered, s)
           IN r.ctx.closed # <<>> =>
                 LET c == Last(r.ctx.closed)
                     length == c.end - c.start
                     cands == Run(parsers[R].p1, Nested(Registered, c.start, c.end), 0).list
                     full == {k \in 1..Len(cands) : cands[k].end = length}
                     tried == IF full = {} THEN Len(cands) ELSE SetMin(full) - 1
                     kind == IF parsers[R].noun = "Line" THEN "LineExtra"
                             ELSE "SectionExtra"
                 IN /\ c.start = s
                    /\ c.ok = (full # {})
                    /\ r.ok = c.ok
                    /\ SelectSeq(c.log, LAMBDA e : e.kind = kind) =
                          [k \in 1..tried |->
                              ParseError(kind, cands[k].end, cands[k].end, <<>>)]
                    /\ r.ok =>
                          /\ r.it.iter[1].start = 0
                          /\ match_end(r.it.iter[1]) = length
                          /\ convert(r.it).raw =
                                <<into_user_type(cands[SetMin(full)].raw)>>

\* line({"1", "1a"}) on 1a: the candidate "1" got a LineExtra at 1, and the
\* line holds the second candidate, "1a".
C32_Witness ==
    /\ pc = "matching"
    /\ parser = "line_either_x1_x1a"
    /\ source = <<"1", "a">>
    /\ iter.iter[1].side = "Right"
    /\ match_end(iter.iter[1]) = 2
    /\ SelectSeq(context.closed[1].log, LAMBDA e : e.kind = "LineExtra") =
          <<new_line_extra(source, 1)>>

\* ---------------------------------------------------------------------- C33
\* No iterator of the tree is one whose backtrack has returned Err.
RECURSIVE NoExhausted(_)
NoExhausted(it) ==
    LET kids == it.head_iter \o it.tail_iter \o it.pattern_iters \o it.sep_iters \o it.iter
    IN /\ ~it.exhausted
       /\ \A i \in 1..Len(kids) : NoExhausted(kids[i])

\* The iterator and every candidate that backtrack moves it to, up to the
\* Err of backtrack, hold no exhausted iterator.
RECURSIVE AllLive(_, _)
AllLive(it, ctx) ==
    /\ NoExhausted(it)
    /\ LET b == backtrack(it, ctx) IN b.ok => AllLive(b.it, b.ctx)

\* C33: an iterator that is at a candidate, where its caller may call
\* match_end, convert or backtrack on it, holds no child, at any depth, whose
\* backtrack has returned Err: the sequence has replaced the tail, the repeat
\* has popped the child, the alternation has replaced the left side; a region
\* or a wrapper whose child is exhausted returns Err itself.
C33_NoExhaustedChildKept ==
    /\ pc = "matching" => NoExhausted(iter)
    /\ (pc = "start" /\ Startable) =>
          \A p \in DOMAIN parsers \ {"none"} : \A s \in 0..Len(source) :
             LET r == parse_iter(p, Registered, s)
             IN r.ok => AllLive(r.it, r.ctx)

\* (any_char* "a") on aa1, second candidate: the backtrack of the tail "a"
\* taken at 1 has failed, the star has given back a character, and the tail
\* of the sequence is a new one, started at 0.
C33_Witness ==
    /\ pc = "matching"
    /\ parser = "seq_star_any_xa"
    /\ source = <<"a", "a", "1">>
    /\ candidates = <<2, 1>>
    /\ iter.tail_iter[1].start = 0
    /\ iter.head_iter[1].pattern_iters = <<>>
    /\ NoExhausted(iter)

\* ---------------------------------------------------------------------- C34
\* The closure that a region of the set passes to with_slice, run in a
\* context over any slice of the text, leaves an error in that context when
\* it returns Err.
ClosureReports(regions) ==
    \A R \in regions : \A s, e \in 0..Len(source) :
       s <= e =>
          LET m == match_fully(parsers[R].noun, Nested(Registered, s, e), parsers[R].p1)
          IN ~m.ok => /\ m.ctx.foremost_error # None
                      /\ m.ctx.log # <<>>

RegisteredList(b) ==
    register_rule_set(new(<<>>), builders[b].id, builders[b].rule_parsers)
        .rule_sets[builders[b].id]

\* C35: after a sequence of builder calls that did not panic and ended in
\* build, the built rule set holds as many rule parsers as new_rule declared
\* rules, and every rule that this builder handed out has a parser at its
\* ordinal: a lookup of the rule does not index past the end of the list.
C35_EveryRuleStored ==
    \A b \in Builders :
       builders[b].state = "built" =>
          /\ Len(builders[b].rule_parsers) = builders[b].capacity
          /\ \A r \in rules :
                r.by = b => r.index + 1 \in DOMAIN RegisteredList(b)

\* build() took a builder that had declared a rule and had assigned no
\* parser for it: nothing panicked, and the lookup of that rule indexes an
\* empty list.
C35_RuleWithoutParser ==
    /\ pc = "builder"
    /\ \E b \in Builders :
          /\ builders[b].state = "built"
          /\ builders[b].capacity = 1
          /\ builders[b].rule_parsers = <<>>
          /\ [rule_set_id |-> builders[b].id, index |-> 0, by |-> b] \in rules
          /\ 1 \notin DOMAIN RegisteredList(b)

\* ---------------------------------------------------------------------- C36
\* Every match of the pattern followed by a match of the separator ends after
\* the offset where the pattern started.
PairConsumes(p) ==
    \A e \in 0..Len(source) :
       LET pats == Run(parsers[p].p1, Registered, e).list
       IN \A i \in 1..Len(pats) :
             LET seps == Run(parsers[p].p2, Registered, pats[i].end).list
             IN \A j \in 1..Len(seps) : seps[j].end > e

\* Pattern and separator of the repeat terminate wherever they are started.
ChildrenTerminate(p) ==
    \A e \in 0..Len(source) :
       /\ ~Run(parsers[p].p1, Registered, e).ctx.hung
       /\ ~Run(parsers[p].p2, Registered, e).ctx.hung

\* The first match of the pattern at s and the first match of the separator
\* after it both end at s.
Stalls(p, s) ==
    LET a == parse_iter(parsers[p].p1, Registered, s)
    IN /\ a.ok
       /\ match_end(a.it) = s
       /\ LET b == parse_iter(parsers[p].p2, a.ctx, s)
          IN b.ok /\ match_end(b.it) = s

\* C36: parse_iter and every backtrack of a repeat iterator return when its
\* children return and each pattern match followed by a separator match
\* consumes at least one byte; advance() itself stops only when creating a
\* child iterator fails, so a repeat whose pattern and separator first match
\* the empty text at one offset does not return from parse_iter there.
C36_RepeatTerminates ==
    /\ (pc = "start" /\ Startable) =>
          \A p \in RepeatIds :
             /\ (ChildrenTerminate(p) /\ PairConsumes(p)) =>
                   \A s \in 0..Len(source) : ~Run(p, Registered, s).ctx.hung
             /\ \A s \in 0..Len(source) :
                   Stalls(p, s) => parse_iter(p, Registered, s).ctx.hung
    /\ pc = "hung" <=> context.hung
    /\ pc = "hung" => \E p \in RepeatIds : \E s \in 0..Len(source) : Stalls(p, s)

\* repeat_n(any_char, 2) on three characters: advance() went on past max to
\* three patterns and three separators before a child failed, the calls
\* returned, and the parse ended.
C36_Witness ==
    /\ pc = "done"
    /\ parser = "repeat_any_2"
    /\ Len(source) = 3
    /\ <<3, 3>> \in context.asserted
    /\ ~context.hung
    /\ candidates = <<2>>
    /\ ~result.ok

\* ---------------------------------------------------------------------- C37
\* What the assert_eq! of advance() and next() require of the two stacks.
Alternates(P, S) ==
    LET n == P + S IN P = (n + 1) \div 2 /\ S = n \div 2

RECURSIVE StacksAlternate(_)
StacksAlternate(it) ==
    LET kids == it.head_iter \o it.tail_iter \o it.pattern_iters \o it.sep_iters \o it.iter
    IN /\ Alternates(Len(it.pattern_iters), Len(it.sep_iters))
       /\ \A i \in 1..Len(kids) : StacksAlternate(kids[i])

\* The iterator and every candidate that backtrack moves it to have
\* alternating stacks, and so had every assert_eq! up to the Err of backtrack.
RECURSIVE AllAlternate(_, _)
AllAlternate(it, ctx) ==
    /\ StacksAlternate(it)
    /\ LET b == backtrack(it, ctx)
       IN IF b.ok THEN AllAlternate(b.it, b.ctx)
          ELSE \A a \in b.ctx.asserted : Alternates(a[1], a[2])

\* C37: the two stacks of a repeat iterator alternate, starting with a
\* pattern: with n the number of iterators on both, pattern_iters holds
\* (n + 1) / 2 and sep_iters holds n / 2, in every repeat iterator that is
\* kept and at every assert_eq! of advance() and next() that was reached.
C37_StacksAlternate ==
    /\ \A a \in context.asserted : Alternates(a[1], a[2])
    /\ StacksAlternate(iter)
    /\ (pc = "start" /\ Startable) =>
          \A p \in DOMAIN parsers \ {"none"} : \A s \in 0..Len(source) :
             LET r == parse_iter(p, Registered, s)
             IN /\ \A a \in r.ctx.asserted : Alternates(a[1], a[2])
                /\ r.ok => AllAlternate(r.it, r.ctx)

\* {"1", "1a"}* on 1a1, at its second candidate: the separator on top was
\* popped, the top pattern was backtracked from "1" to "1a" with one pattern
\* more than separators on the stacks, and advance() went on from there with
\* a separator and a second pattern.
C37_Witness ==
    /\ pc = "matching"
    /\ parser = "star_either_x1_x1a"
    /\ source = <<"1", "a", "1">>
    /\ candidates = <<1, 3>>
    /\ Len(iter.pattern_iters) = 2
    /\ Len(iter.sep_iters) = 1
    /\ context.asserted = {<<0, 0>>, <<1, 0>>, <<1, 1>>, <<2, 2>>}

\* ---------------------------------------------------------------------- C38
\* The children of a repeat iterator in the order they were made: pattern,
\* separator, pattern, ...
Children(it) ==
    [k \in 1..num_matches(it) |->
        IF k % 2 = 1 THEN it.pattern_iters[(k + 1) \div 2] ELSE it.sep_iters[k \div 2]]

\* The first child was started at the start of the repeat, every other child
\* at the current match_end of the child before it, and the repeat ends
\* where its last child ends, or where it started when it has none.
Contiguous(it) ==
    /\ Alternates(Len(it.pattern_iters), Len(it.sep_iters))
    /\ LET kids == Children(it)
       IN /\ \A k \in 1..Len(kids) :
                kids[k].start = IF k = 1 THEN it.start ELSE match_end(kids[k - 1])
          /\ match_end(it) = IF kids = <<>> THEN it.start ELSE match_end(Last(kids))

RECURSIVE RepeatsContiguous(_)
RepeatsContiguous(it) ==
    LET kids == it.head_iter \o it.tail_iter \o it.pattern_iters \o it.sep_iters \o it.iter
    IN /\ parsers[it.p].kind = "repeat" => Contiguous(it)
       /\ \A i \in 1..Len(kids) : RepeatsContiguous(kids[i])

RECURSIVE AllContiguous(_, _)
AllContiguous(it, ctx) ==
    /\ RepeatsContiguous(it)
    /\ LET b == backtrack(it, ctx) IN b.ok => AllContiguous(b.it, b.ctx)

\* C38: at every candidate of a repeat iterator its children are contiguous:
\* the first pattern iterator was started at the start offset of the repeat,
\* each later pattern or separator iterator at the current match_end of the
\* child before it, and match_end of the repeat is match_end of the last
\* child, or the start offset when there is none.
C38_RepeatChildrenContiguous ==
    /\ pc = "matching" => RepeatsContiguous(iter)
    /\ (pc = "start" /\ Startable) =>
          \A p \in DOMAIN parsers \ {"none"} : \A s \in 0..Len(source) :
             LET r == parse_iter(p, Registered, s)
             IN r.ok => AllContiguous(r.it, r.ctx)

\* repeat_sep(any_char, "a") on 1a1, first candidate: the patterns started at
\* 0 and 2, the separator between them at 1, and the repeat ends at 3, where
\* the second pattern ends.
C38_Witness ==
    /\ pc = "matching"
    /\ parser = "repeat_sep_any_xa"
    /\ source = <<"1", "a", "1">>
    /\ candidates = <<3>>
    /\ iter.start = 0
    /\ Len(iter.pattern_iters) = 2
    /\ Len(iter.sep_iters) = 1
    /\ iter.pattern_iters[1].start = 0 /\ match_end(iter.pattern_iters[1]) = 1
    /\ iter.sep_iters[1].start = 1 /\ match_end(iter.sep_iters[1]) = 2
    /\ iter.pattern_iters[2].start = 2 /\ match_end(iter.pattern_iters[2]) = 3
    /\ match_end(iter) = 3

\* ---------------------------------------------------------------------- C39
\* The head of a sequence iterator was started where the sequence was, the
\* tail where the head currently ends and it is not one whose backtrack has
\* failed, and the sequence ends where the tail ends.
Joined(it) ==
    /\ it.head_iter[1].start = it.start
    /\ it.tail_iter[1].start = match_end(it.head_iter[1])
    /\ ~it.tail_iter[1].exhausted
    /\ match_end(it) = match_end(it.tail_iter[1])

RECURSIVE SequencesJoined(_)
SequencesJoined(it) ==
    LET kids == it.head_iter \o it.tail_iter \o it.pattern_iters \o it.sep_iters \o it.iter
    IN /\ parsers[it.p].kind = "sequence" => Joined(it)
       /\ \A i \in 1..Len(kids) : SequencesJoined(kids[i])

RECURSIVE AllJoined(_, _)
AllJoined(it, ctx) ==
    /\ SequencesJoined(it)
    /\ LET b == backtrack(it, ctx) IN b.ok => AllJoined(b.it, b.ctx)

\* C39: a sequence iterator at a candidate, after a successful parse_iter or
\* backtrack, has a tail iterator that was started at the current match_end
\* of its head iterator, and its match_end is the tail's match_end; after a
\* successful backtrack of the head the tail is a new one, started at the
\* head's new end, never the one that was started at an earlier end.
C39_SequenceTailAtHeadEnd ==
    /\ pc = "matching" => SequencesJoined(iter)
    /\ (pc = "start" /\ Startable) =>
          \A p \in DOMAIN parsers \ {"none"} : \A s \in 0..Len(source) :
             LET r == parse_iter(p, Registered, s)
             IN r.ok => AllJoined(r.it, r.ctx)

\* (any_char* "a") on 1aa: the star first took all three characters, the tail
\* "a" failed at 3, the head gave one back, and the tail that is kept was
\* started at 2, where the head now ends.
C39_Witness ==
    /\ pc = "matching"
    /\ parser = "seq_star_any_xa"
    /\ source = <<"1", "a", "a">>
    /\ candidates = <<3>>
    /\ iter.head_iter[1].start = 0
    /\ match_end(iter.head_iter[1]) = 2
    /\ iter.tail_iter[1].start = 2
    /\ match_end(iter.tail_iter[1]) = 3
    /\ match_end(iter) = 3
====
